---- MODULE Spec2Model ----
(***************************************************************************)
(* Model of athyr-agent's message orchestration (internal/runner):        *)
(* MessageHandler.Handle with its bounded completion/tool loop, session   *)
(* resolution (ensureSession), routing decision (extractRouteFrom,        *)
(* TopicsConfig.IsValidRoute) and dispatch to adapters (plugin.Manager)   *)
(* or platform topics.  One event is handled at a time; the handler is    *)
(* cut at its calls to the platform, the tool broker and the adapters.    *)
(***************************************************************************)
EXTENDS Integers, Sequences, FiniteSets, TLC

\* ---------------------------------------------------------------- bounds
\* Events handled one after another by the same MessageHandler.
MaxEvents == 2
\* Tool calls the model may list in one completion.
MaxCalls == 2
\* Longest capability path or restriction entry, in characters, and longest
\* restriction list, of the sandbox specification.
MaxStr == 3
MaxRestrict == 2
\* Adapters a configuration may list.
MaxPlugins == 2
\* Data a source's script may emit, and events the platform may deliver.
MaxData == 2
\* Largest buffer size of an event bus, and events sent to it.
MaxBuffer == 2
MaxSends == 3
\* Tool rounds the model asks for, and events one thread handles, in the
\* specification of concurrently handled events.
MaxRounds == 1
MaxPerThread == 1
\* Tool registrations made with the broker.
MaxRegs == 3

\* ------------------------------------------------------- program constants
maxToolIterations == 10

\* ---------------------------------------------------------------- values
Nil == [nil |-> TRUE]
EmptyObj == [k \in {} |-> ""]

\* Tools the model may name.  "search" and "flaky" are registered with the
\* broker (toolSrc); "flaky" fails remotely; "ghost" is not registered.
ToolNames == {"search", "flaky", "ghost"}
RegisteredTools == {"search", "flaky"}
RemoteFailing == {"flaky"}

\* Inbound payloads: raw is the byte string, kind/obj what json.Unmarshal
\* sees (an object with its keys, or no JSON object at all).
Payloads ==
  { [raw |-> "hello", kind |-> "text", obj |-> EmptyObj],
    [raw |-> "{session_id:u1,content:hi}", kind |-> "object",
     obj |-> [session_id |-> "u1", content |-> "hi"]],
    [raw |-> "{session:u1,content:hi}", kind |-> "object",
     obj |-> [session |-> "u1", content |-> "hi"]] }

ReplySubjects == {"", "_INBOX.1"}

\* Completion texts.  fence is how the text is wrapped: "none", a leading
\* ```json block, a leading ``` block, or a block preceded by prose.
TextContent == [fence |-> "none", kind |-> "text", obj |-> EmptyObj]
ObjContent(f, o) == [fence |-> f, kind |-> "object", obj |-> o]
FinalContents ==
  { TextContent,
    ObjContent("none", [content |-> "x"]),
    ObjContent("none", [route_to |-> "", content |-> "x"]),
    ObjContent("none", [route_to |-> "billing", content |-> "x"]),
    ObjContent("json", [route_to |-> "billing", content |-> "x"]),
    ObjContent("prose", [route_to |-> "billing", content |-> "x"]),
    ObjContent("none", [route_to |-> "sink", content |-> "x"]),
    ObjContent("generic", [route_to |-> "unknown", content |-> "x"]) }
\* Texts accompanying a completion that requests tool calls.
ToolCallContents ==
  { [fence |-> "none", kind |-> "text", obj |-> EmptyObj],
    ObjContent("none", [route_to |-> "billing", content |-> "x"]) }

\* Agent configurations (config.Config after Validate): memory enabled,
\* tool broker present, instructions set, default publish list, routes,
\* loaded adapters (Runner.Run builds a plugin manager only when the set
\* is not empty).
Configs ==
  { [memory |-> TRUE, mcp |-> TRUE, instructions |-> TRUE,
     publish |-> <<"out", "sink">>, routes |-> <<"billing", "sink">>,
     plugins |-> {"sink"}],
    [memory |-> FALSE, mcp |-> FALSE, instructions |-> FALSE,
     publish |-> <<"out">>, routes |-> << >>,
     plugins |-> {}] }

VARIABLES
  cfg,              \* h.cfg
  sessions,         \* h.sessions: user session id -> server session id
  events,           \* number of events received so far
  pc,               \* position of Handle
  msg,              \* the inbound athyr.SubscribeMessage
  userSessionID,    \* locals of Handle
  serverSessionID,
  messages,
  i,
  resp,
  j,                \* index of the tool call being executed
  routeTo,
  targetTopics,
  d,                \* index of the destination being dispatched
  shape,            \* the tool names the model lists when it requests tools
  completions,      \* Complete calls received by the platform in this event
  request,          \* the CompletionRequest in flight (Nil: none)
  lastAnswer,       \* the last CompletionResponse the platform returned
  reqSessionIDs,    \* SessionID values carried by this event's requests
  createCalls,      \* CreateSession calls received by the platform, in all
  executed,         \* executeToolCall invocations of this event, in order
  published,        \* publishes attempted in this event, in order
  warnings          \* "invalid route_to" warnings logged in this event

\* The scripting host (internal/plugin), used by the specifications of the
\* sandbox, the capability bridge and the adapter registry.
VARIABLES
  sb,               \* the Sandbox under test
  checked,          \* the last IsRestricted call: its argument and result
  files,            \* the host's file system: path -> content
  lastCall          \* the last bridge call of the script and its outcome

\* The adapter registry (plugin.Manager) as Runner.Run builds and uses it.
VARIABLES
  pluginCfgs,       \* r.cfg.Agent.Plugins
  subscribeTopics,  \* r.cfg.Agent.Topics.Subscribe
  plugins,          \* m.plugins: name -> pluginState
  runPc,            \* position of Runner.Run
  loadIdx,          \* index of Run's loop over the plugins or the topics
  goroutines,       \* the adapters whose source goroutine was started
  ret               \* the last Manager call and what it returned

registryVars == <<pluginCfgs, subscribeTopics, plugins, runPc, loadIdx,
                  goroutines, ret>>

\* The threads that use the registry while the agent runs: the source
\* goroutine of an adapter, the platform's subscription thread, and Run.
VARIABLES
  mu,               \* m.mu: the readers holding it, the writer, a waiting writer
  thr,              \* per thread: position, destination of the event in hand
  mainPc,           \* position of Run from the wait for shutdown on
  closeTarget,      \* the adapter Close's loop is closing ("": none)
  closed,           \* the adapters whose Lua state was closed
  closeRet,         \* what Manager.Close returned (Nil: not yet)
  emitted,          \* callback invocations made by the source's script
  forwarded,        \* Handle calls made for the source's data
  handled,          \* Handle calls for the source's data that returned
  delivered         \* events delivered by the platform subscription

threadVars == <<mu, thr, mainPc, closeTarget, closed, closeRet, emitted,
                forwarded, handled, delivered>>

hostVars == <<sb, checked, files, lastCall, registryVars, threadVars>>

\* The event bus (h.eventBus, r.eventBus) of the TUI mode.
VARIABLES
  bus,              \* ChannelEventBus: ch, its capacity, closed
  snd,              \* per sending thread: position in Send, event, outcome
  busLog            \* events accepted by the channel, events received

busVars == <<bus, snd, busLog>>

\* Events handled at the same time: the locals of each running Handle.
VARIABLES
  ev                \* per thread: position, ctx, messages, call outcomes

\* The tool broker (MCPManager).
VARIABLES
  mgr,              \* MCPManager: sessions, tools, toolSrc, toolExecutor
  regs,             \* the registrations made, in order: server and tool
  callRet           \* the last CallTool: arguments, result, who was called

brokerVars == <<mgr, regs, callRet>>

\* The pure functions checked on their own: each variable holds the input
\* drawn for one application and what the function made of it.
VARIABLES
  codec,            \* json.decode then json.encode of one text
  parsed            \* parseMessage of one payload

pureVars == <<codec, parsed>>

\* Handle seen through the events it emits, and the watch of the
\* terminal interface: each one the state of a specification of its own.
VARIABLES
  obs,              \* one Handle call: position, emitted events, publishes
  watch             \* watchSub, watchTopic and the platform's subscriptions

auxVars == <<obs, watch>>

sideVars == <<busVars, ev, brokerVars, pureVars, auxVars>>

handlerVars == <<cfg, sessions, events, pc, msg, userSessionID,
                 serverSessionID, messages, i, resp, j, routeTo, targetTopics,
                 d, shape, completions, request, lastAnswer, reqSessionIDs,
                 createCalls, executed, published, warnings, sideVars>>

vars == <<handlerVars, hostVars>>

\* ------------------------------------------------------------ pure code

\* (mutant) an empty content is taken from the object like any other
parseMessageAnyContent(data) ==
  IF data.kind = "object" /\ "content" \in DOMAIN data.obj
    THEN [sessionID |-> IF "session_id" \in DOMAIN data.obj
                          THEN data.obj["session_id"] ELSE "",
          content |-> data.obj["content"]]
    ELSE [sessionID |-> "", content |-> data.raw]

\* parseMessage: session id and content of the payload.  encoding/json
\* fills IncomingMessage from the keys "session_id" and "content"; any
\* other key is ignored, a missing key leaves "".
parseMessage(data) ==
  IF data.kind = "object" /\ "content" \in DOMAIN data.obj
     /\ data.obj["content"] # ""
    THEN [sessionID |-> IF "session_id" \in DOMAIN data.obj
                          THEN data.obj["session_id"] ELSE "",
          content |-> data.obj["content"]]
    ELSE [sessionID |-> "", content |-> data.raw]

\* extractJSONFromMarkdown: a leading ```json or ``` fence is removed; a
\* text that does not start with a fence is returned as it is.
extractJSONFromMarkdown(content) ==
  IF content.fence \in {"json", "generic"}
    THEN [content EXCEPT !.fence = "none"]
    ELSE content

\* extractRouteFrom: the route_to field of the (unwrapped) JSON object, ""
\* when the text is no JSON object or has no such field.
extractRouteFrom(content) ==
  LET jsonContent == extractJSONFromMarkdown(content)
  IN  IF ~(jsonContent.fence = "none" /\ jsonContent.kind = "object")
        THEN ""
        ELSE IF "route_to" \in DOMAIN jsonContent.obj
               THEN jsonContent.obj["route_to"] ELSE ""

\* TopicsConfig.HasRoutes, TopicsConfig.IsValidRoute
HasRoutes == Len(cfg.routes) > 0
IsValidRoute(topic) == \E k \in 1..Len(cfg.routes) : cfg.routes[k] = topic

\* BuildRoutingPrompt: nothing without routes; otherwise a heading, one
\* line per route in the configured order, and the example.
RouteLine(topic) == <<"- ", topic>>
BuildRoutingPrompt ==
  IF ~HasRoutes THEN << >>
  ELSE << <<"## Routing Instructions">> >> \o
       [k \in 1..Len(cfg.routes) |-> RouteLine(cfg.routes[k])] \o
       << <<"Example response format">> >>

\* (mutant) no destination is taken for an adapter
IsPluginNever(name) == FALSE

\* Manager.IsPlugin behind Handle's nil check of h.plugins
IsPlugin(name) == cfg.plugins # {} /\ name \in cfg.plugins

\* MCPManager.CallTool: unknown tool, else the server's answer.
CallTool(name) ==
  IF name \notin RegisteredTools
    THEN [err |-> "unknown tool", result |-> ""]
    ELSE IF name \in RemoteFailing
           THEN [err |-> "tool call failed", result |-> ""]
           ELSE [err |-> "", result |-> "tool result"]

\* MessageHandler.executeToolCall
executeToolCall(call) ==
  IF ~cfg.mcp
    THEN [err |-> "no MCP manager configured", result |-> ""]
    ELSE CallTool(call.name)

\* The content of the tool-result message Handle appends for a call.
ToolResultContent(r) ==
  IF r.err # "" THEN [kind |-> "error", text |-> r.err]
                ELSE [kind |-> "result", text |-> r.result]

\* (mutant) the result message does not name the call it answers
ToolMessageWithoutID(call) ==
  [role |-> "tool", toolCallID |-> 0, toolCalls |-> << >>,
   content |-> ToolResultContent(executeToolCall(call))]

ToolMessage(call) ==
  [role |-> "tool", toolCallID |-> call.id, toolCalls |-> << >>,
   content |-> ToolResultContent(executeToolCall(call))]

AssistantMessage(calls) ==
  [role |-> "assistant", toolCallID |-> 0, toolCalls |-> calls,
   content |-> [kind |-> "none", text |-> ""]]

\* The messages Handle builds before the loop.
InitialMessages(content) ==
  (IF cfg.instructions
     THEN << [role |-> "system", toolCallID |-> 0, toolCalls |-> << >>,
              content |-> [kind |-> "instructions",
                           text |-> IF HasRoutes
                                      THEN << <<"instructions">> >> \o
                                           BuildRoutingPrompt
                                      ELSE << <<"instructions">> >>]] >>
     ELSE << >>)
  \o << [role |-> "user", toolCallID |-> 0, toolCalls |-> << >>,
         content |-> [kind |-> "user", text |-> content]] >>

\* (mutant) the memory flag follows the configuration alone
CompletionRequestFlagByConfig(msgs, sid) ==
  [messages |-> msgs,
   sessionID |-> IF cfg.memory /\ sid # 0 THEN sid ELSE 0,
   includeMemory |-> cfg.memory]

\* (mutant) the request leaves the tool results out
CompletionRequestWithoutResults(msgs, sid) ==
  [messages |-> SelectSeq(msgs, LAMBDA m : m.role # "tool"),
   sessionID |-> IF cfg.memory /\ sid # 0 THEN sid ELSE 0,
   includeMemory |-> cfg.memory /\ sid # 0]

\* The CompletionRequest of one iteration.
CompletionRequest(msgs, sid) ==
  [messages |-> msgs,
   sessionID |-> IF cfg.memory /\ sid # 0 THEN sid ELSE 0,
   includeMemory |-> cfg.memory /\ sid # 0]

\* Response and its encoding (json.Marshal) as published to topics.
Response(r, subject) == [content |-> r.content, source_topic |-> subject]
responseData(r, subject) == [json |-> Response(r, subject)]

\* Tool-call lists the model may return.
Shapes == UNION { [1..n -> ToolNames] : n \in 1..MaxCalls }
ToolCalls(names, round) ==
  [k \in 1..Len(names) |-> [id |-> round * 100 + k, name |-> names[k]]]

\* ---------------------------------------------------------------- Init
\* The scripting host before any sandbox is built.
RegistryIdle ==
  /\ pluginCfgs = << >>
  /\ subscribeTopics = << >>
  /\ plugins = EmptyObj
  /\ runPc = "none"
  /\ loadIdx = 0
  /\ goroutines = {}
  /\ ret = Nil

ThreadsIdle ==
  /\ mu = Nil
  /\ thr = Nil
  /\ mainPc = "none"
  /\ closeTarget = ""
  /\ closed = {}
  /\ closeRet = Nil
  /\ emitted = 0
  /\ forwarded = 0
  /\ handled = 0
  /\ delivered = 0

HostIdle ==
  /\ ThreadsIdle
  /\ sb = Nil
  /\ checked = Nil
  /\ files = Nil
  /\ lastCall = Nil
  /\ RegistryIdle

\* No event bus: Options.EventBus is nil outside the TUI mode.
BusIdle ==
  /\ bus = Nil
  /\ snd = Nil
  /\ busLog = Nil

\* newMessageHandler: the handler's fields and Handle's locals.
HandlerFields ==
  /\ sessions = EmptyObj
  /\ events = 0
  /\ pc = "idle"
  /\ msg = Nil
  /\ userSessionID = ""
  /\ serverSessionID = 0
  /\ messages = << >>
  /\ i = 0
  /\ resp = Nil
  /\ j = 0
  /\ routeTo = ""
  /\ targetTopics = << >>
  /\ d = 0
  /\ shape = << >>
  /\ completions = 0
  /\ request = Nil
  /\ lastAnswer = Nil
  /\ reqSessionIDs = {}
  /\ createCalls = << >>
  /\ executed = << >>
  /\ published = << >>
  /\ warnings = << >>

\* No Handle is running on any thread.
EventsIdle == ev = Nil

\* The broker is not under test.
BrokerIdle ==
  /\ mgr = Nil
  /\ regs = << >>
  /\ callRet = Nil

\* No pure function is under test.
PureIdle ==
  /\ codec = Nil
  /\ parsed = Nil

\* No Handle call is observed and the terminal interface is not running.
AuxIdle ==
  /\ obs = Nil
  /\ watch = Nil

HandlerConstructed ==
  HandlerFields /\ BusIdle /\ EventsIdle /\ BrokerIdle /\ PureIdle /\ AuxIdle

Init ==
  /\ cfg \in Configs
  /\ HandlerConstructed
  /\ HostIdle

\* ------------------------------------------------------------- Handle

\* (mutant) the route is not validated against the configured routes
RouteDecisionUnchecked(content) == extractRouteFrom(content)

\* Handle, lines 276-314: the routing decision taken from the final text.
RouteDecision(content) ==
  LET r == extractRouteFrom(content)
  IN  IF r # "" /\ IsValidRoute(r) THEN r ELSE ""

RouteWarnings(content) ==
  LET r == extractRouteFrom(content)
  IN  IF r # "" /\ ~IsValidRoute(r) THEN << r >> ELSE << >>

\* (mutant) the route is added to the default destinations
TargetTopicsRouteAdded(route) ==
  IF route # "" THEN << route >> \o cfg.publish ELSE cfg.publish

TargetTopics(route) ==
  IF route # "" THEN << route >> ELSE cfg.publish

\* (mutant) the reply is sent for default destinations only
AfterDispatchUnroutedOnly ==
  IF msg.reply # "" /\ routeTo = "" THEN "reply" ELSE "done"

\* Where Handle goes once the destination loop is over (or empty).
AfterDispatch == IF msg.reply # "" THEN "reply" ELSE "done"

\* Leaving the tool loop with response r: routing decision and targets.
\* Nothing after the loop reads messages, i or the tool calls' records:
\* they are dropped here.
AfterLoop(r) ==
  /\ messages' = << >>
  /\ i' = 0
  /\ j' = 0
  /\ shape' = << >>
  /\ executed' = << >>
  /\ routeTo' = RouteDecision(r.content)
  /\ warnings' = warnings \o RouteWarnings(r.content)
  /\ targetTopics' = TargetTopics(routeTo')
  /\ d' = 1
  /\ pc' = IF Len(targetTopics') > 0 THEN "dispatch" ELSE AfterDispatch

\* ensureSession finds a mapping, or Handle needs no session: the
\* messages are built and the loop starts.
StartLoop(sid) ==
  /\ serverSessionID' = sid
  /\ messages' = InitialMessages(parseMessage(msg'.data).content)
  /\ pc' = "complete"

\* (mutant) the stored mapping is never found
HasSessionNever(key) == FALSE

\* ensureSession, lines 378-381: is there a mapping for the key already.
HasSession(key) == key \in DOMAIN sessions

\* A message arrives: parse, resolve the session when ensureSession has
\* the mapping, otherwise ask the platform for a session.
Receive ==
  /\ pc = "idle"
  /\ events < MaxEvents
  /\ \E data \in Payloads, reply \in ReplySubjects :
       /\ msg' = [subject |-> "input", data |-> data, reply |-> reply]
       /\ userSessionID' = parseMessage(data).sessionID
       /\ IF cfg.memory /\ userSessionID' # ""
            THEN IF HasSession(userSessionID')
                   THEN StartLoop(sessions[userSessionID'])
                   ELSE /\ pc' = "createSession"
                        /\ UNCHANGED <<serverSessionID, messages>>
            ELSE StartLoop(0)
  /\ events' = events + 1
  /\ UNCHANGED <<hostVars, sideVars>>
  /\ UNCHANGED <<cfg, sessions, i, resp, j, routeTo, targetTopics, d, shape,
                 completions, request, lastAnswer, reqSessionIDs, createCalls, executed,
                 published, warnings>>

\* (mutant) the mapping is stored whether or not the creation succeeded
SessionsAfterCreateAlways(key, id) ==
  [k \in DOMAIN sessions \cup {key} |-> IF k = key THEN id ELSE sessions[k]]

\* ensureSession, lines 393-402: what is stored and returned when the
\* platform's CreateSession answers (id = 0: it failed).
SessionsAfterCreate(key, id) ==
  IF id = 0 THEN sessions
  ELSE [k \in DOMAIN sessions \cup {key} |->
          IF k = key THEN id ELSE sessions[k]]

\* The platform answers CreateSession.
CreateSessionReturn ==
  /\ pc = "createSession"
  /\ \E ok \in BOOLEAN :
       LET id == IF ok THEN Len(createCalls) + 1 ELSE 0
       IN  /\ sessions' = SessionsAfterCreate(userSessionID, id)
           /\ serverSessionID' = id
           /\ createCalls' = Append(createCalls,
                                    [key |-> userSessionID, id |-> id,
                                     event |-> events])
  /\ messages' = InitialMessages(parseMessage(msg.data).content)
  /\ pc' = "complete"
  /\ UNCHANGED <<hostVars, sideVars>>
  /\ UNCHANGED <<cfg, events, msg, userSessionID, i, resp, j, routeTo,
                 targetTopics, d, shape, completions, request, lastAnswer, reqSessionIDs,
                 executed, published, warnings>>

\* (mutant) the loop runs one iteration too many
LoopContinuesOffByOne(n) == n <= maxToolIterations

\* (mutant) the loop is left after the first round of tool calls
LoopContinuesOnce(n) == n < 1

\* The loop condition of "for i := 0; i < maxToolIterations; i++".
LoopContinues(n) == n < maxToolIterations

\* What the model may answer to the request of iteration i.
LLMResponses ==
  { [content |-> c, toolCalls |-> << >>] : c \in FinalContents }
  \cup
  { [content |-> c, toolCalls |-> ToolCalls(names, i)] :
      c \in ToolCallContents,
      names \in IF shape = << >> THEN Shapes ELSE {shape} }

\* An iteration starts: the completion request is sent to the platform.
RequestCompletion ==
  /\ pc = "complete"
  /\ request' = CompletionRequest(messages, serverSessionID)
  /\ completions' = completions + 1
  /\ reqSessionIDs' = reqSessionIDs \cup {request'.sessionID}
  /\ pc' = "completing"
  /\ UNCHANGED <<hostVars, sideVars>>
  /\ UNCHANGED <<cfg, sessions, events, msg, userSessionID, serverSessionID,
                 messages, i, resp, j, routeTo, targetTopics, d, shape,
                 lastAnswer, createCalls, executed, published, warnings>>

\* The completion fails (resp is nil): Handle returns.
CompleteFails ==
  /\ pc = "completing"
  /\ request' = Nil
  /\ resp' = Nil
  /\ pc' = "done"
  /\ UNCHANGED <<hostVars, sideVars>>
  /\ UNCHANGED <<cfg, sessions, events, msg, userSessionID, serverSessionID,
                 messages, i, j, routeTo, targetTopics, d, shape, completions,
                 lastAnswer, reqSessionIDs, createCalls, executed, published,
                 warnings>>

\* The completion is answered: without tool calls the loop is left
\* (break), with tool calls the assistant's request is appended and the
\* calls start.
Complete ==
  /\ pc = "completing"
  /\ request' = Nil
  /\ \E r \in LLMResponses :
       /\ resp' = r
       /\ lastAnswer' = r
       /\ IF Len(r.toolCalls) = 0
            THEN /\ pc' = "route"
                 /\ UNCHANGED <<messages, j, shape>>
            ELSE /\ messages' = Append(messages, AssistantMessage(r.toolCalls))
                 /\ j' = 1
                 /\ shape' = [k \in 1..Len(r.toolCalls) |-> r.toolCalls[k].name]
                 /\ pc' = "tool"
  /\ UNCHANGED <<hostVars, sideVars>>
  /\ UNCHANGED <<cfg, sessions, events, msg, userSessionID, serverSessionID,
                 i, routeTo, targetTopics, d, completions, reqSessionIDs,
                 createCalls, executed, published, warnings>>

\* (mutant) a failed tool call ends the event
AfterToolCallAbortOnError(r) ==
  IF r.err # "" THEN "abort"
  ELSE IF j < Len(resp.toolCalls) THEN "tool" ELSE "next"

\* Handle, lines 211-265: where the handler goes after tool call j of the
\* current completion ("tool": next call, "next": end of the iteration).
AfterToolCall(r) == IF j < Len(resp.toolCalls) THEN "tool" ELSE "next"

\* (mutant) the calls are taken last to first
CurrentCallReversed == resp.toolCalls[Len(resp.toolCalls) - j + 1]

\* The call the "for _, call := range resp.ToolCalls" loop is at.
CurrentCall == resp.toolCalls[j]

\* One tool call of the current completion is executed and its result
\* message appended; after the last call the next iteration starts, or the
\* loop is left when the bound is reached.
ExecuteTool ==
  /\ pc = "tool"
  /\ LET call == CurrentCall
         r == executeToolCall(call)
     IN  CASE AfterToolCall(r) = "tool" ->
                /\ executed' = Append(executed, call.id)
                /\ messages' = Append(messages, ToolMessage(call))
                /\ j' = j + 1
                /\ UNCHANGED <<pc, i>>
           [] AfterToolCall(r) = "next" ->
                /\ executed' = Append(executed, call.id)
                /\ messages' = Append(messages, ToolMessage(call))
                /\ j' = 0
                /\ i' = i + 1
                /\ pc' = IF LoopContinues(i') THEN "complete" ELSE "route"
           [] OTHER ->
                /\ pc' = "done"
                /\ UNCHANGED <<executed, messages, j, i>>
  /\ UNCHANGED <<hostVars, sideVars>>
  /\ UNCHANGED <<cfg, sessions, events, msg, userSessionID, serverSessionID,
                 resp, routeTo, targetTopics, d, shape, completions, request,
                 lastAnswer, reqSessionIDs, createCalls, published, warnings>>

\* Handle, lines 268-314: after the loop, the routing decision and the
\* target topics.
Route ==
  /\ pc = "route"
  /\ IF resp = Nil
       THEN /\ pc' = "done"
            /\ UNCHANGED <<messages, i, j, shape, executed, routeTo,
                           targetTopics, d, warnings>>
       ELSE AfterLoop(resp)
  /\ UNCHANGED <<hostVars, sideVars>>
  /\ UNCHANGED <<cfg, sessions, events, msg, userSessionID, serverSessionID,
                 resp, completions, request, lastAnswer, reqSessionIDs,
                 createCalls, published>>

\* Handle, lines 316-324: the publish made for one destination name.
DestinationPublish(topic) ==
  IF IsPlugin(topic)
    THEN [kind |-> "dest", via |-> "plugin", topic |-> topic,
          data |-> resp.content]
    ELSE [kind |-> "dest", via |-> "agent", topic |-> topic,
          data |-> responseData(resp, msg.subject)]

\* (mutant) the destination loop stops at the first failed publish
DispatchStopsOnFailure(ok) == ok

\* Handle, lines 326-348: the destination loop goes on after a publish,
\* whatever its outcome.
DispatchGoesOn(ok) == TRUE

\* One destination of targetTopics is published to.
Dispatch ==
  /\ pc = "dispatch"
  /\ \E ok \in BOOLEAN :
       /\ published' = Append(published,
                              [pub |-> DestinationPublish(targetTopics[d]),
                               ok |-> ok])
       /\ IF DispatchGoesOn(ok) /\ d < Len(targetTopics)
            THEN /\ d' = d + 1
                 /\ UNCHANGED pc
            ELSE /\ d' = 0
                 /\ pc' = AfterDispatch
  /\ UNCHANGED <<hostVars, sideVars>>
  /\ UNCHANGED <<cfg, sessions, events, msg, userSessionID, serverSessionID,
                 messages, i, resp, j, routeTo, targetTopics, shape,
                 completions, request, lastAnswer, reqSessionIDs, createCalls, executed,
                 warnings>>

\* Handle, lines 350-359: the reply publish.
ReplyPublish ==
  [kind |-> "reply", via |-> "agent", topic |-> msg.reply,
   data |-> responseData(resp, msg.subject)]

Reply ==
  /\ pc = "reply"
  /\ \E ok \in BOOLEAN :
       published' = Append(published, [pub |-> ReplyPublish, ok |-> ok])
  /\ pc' = "done"
  /\ UNCHANGED <<hostVars, sideVars>>
  /\ UNCHANGED <<cfg, sessions, events, msg, userSessionID, serverSessionID,
                 messages, i, resp, j, routeTo, targetTopics, d, shape,
                 completions, request, lastAnswer, reqSessionIDs, createCalls, executed,
                 warnings>>

\* Handle returns: its locals are gone, the handler waits for a message.
Return ==
  /\ pc = "done"
  /\ pc' = "idle"
  /\ msg' = Nil
  /\ userSessionID' = ""
  /\ serverSessionID' = 0
  /\ messages' = << >>
  /\ i' = 0
  /\ resp' = Nil
  /\ j' = 0
  /\ routeTo' = ""
  /\ targetTopics' = << >>
  /\ d' = 0
  /\ shape' = << >>
  /\ completions' = 0
  /\ request' = Nil
  /\ lastAnswer' = Nil
  /\ reqSessionIDs' = {}
  /\ executed' = << >>
  /\ published' = << >>
  /\ warnings' = << >>
  /\ UNCHANGED <<hostVars, sideVars>>
  /\ UNCHANGED <<cfg, sessions, events, createCalls>>

Next ==
  \/ Receive
  \/ CreateSessionReturn
  \/ RequestCompletion
  \/ CompleteFails
  \/ Complete
  \/ ExecuteTool
  \/ Route
  \/ Dispatch
  \/ Reply
  \/ Return

Spec == Init /\ [][Next]_vars

\* ------------------------------------------------------------ properties

\* A final response was obtained: Handle is past the tool loop.
FinalResponse == pc \in {"dispatch", "reply", "done"} /\ resp # Nil

DestPublishes == SelectSeq(published, LAMBDA e : e.pub.kind = "dest")
ReplyPublishes == SelectSeq(published, LAMBDA e : e.pub.kind = "reply")
TopicsOf(seq) == [k \in 1..Len(seq) |-> seq[k].pub.topic]
Range(seq) == { seq[k] : k \in 1..Len(seq) }

\* The tool-call ids of the tool-result messages of msgs, in order.
ToolIDs(msgs) ==
  LET t == SelectSeq(msgs, LAMBDA m : m.role = "tool")
  IN  [k \in 1..Len(t) |-> t[k].toolCallID]

\* Each assistant tool request of msgs is followed by the results of its
\* calls, one per call, in the order of the request (as far as msgs goes).
RoundsInOrder(msgs) ==
  \A p \in 1..Len(msgs) :
    msgs[p].role = "assistant" =>
      \A k \in 1..Len(msgs[p].toolCalls) :
        p + k <= Len(msgs) =>
          /\ msgs[p + k].role = "tool"
          /\ msgs[p + k].toolCallID = msgs[p].toolCalls[k].id

\* Every tool request of msgs has all its results in msgs.
RoundsComplete(msgs) ==
  \A p \in 1..Len(msgs) :
    msgs[p].role = "assistant" => p + Len(msgs[p].toolCalls) <= Len(msgs)

\* C1: Handle issues at most 10 completion requests for one event, also
\* when every completion requests tool calls; the response that is routed
\* and published is the last completion the platform returned.
C1_AtMostTenCompletions ==
  /\ completions <= 10
  /\ FinalResponse =>
       /\ resp = lastAnswer
       /\ routeTo \in {"", extractRouteFrom(lastAnswer.content)}
       /\ \A k \in 1..Len(published) :
            published[k].pub.data \in
              {lastAnswer.content, [json |-> [content |-> lastAnswer.content,
                                              source_topic |-> msg.subject]]}

C1_Witness ==
  /\ pc = "done"
  /\ completions = 10
  /\ lastAnswer # Nil
  /\ Len(lastAnswer.toolCalls) > 0
  /\ Len(published) > 0

\* C2: the tool calls of one completion are executed one at a time in the
\* order the model listed them, each result message is appended before the
\* next call starts, and every completion request carries the results of
\* all earlier calls in that order.
C2_ToolCallsInOrder ==
  /\ RoundsInOrder(messages)
  /\ executed = ToolIDs(messages)
  /\ pc = "tool" =>
       /\ Len(messages) >= j
       /\ messages[Len(messages) - (j - 1)].role = "assistant"
       /\ messages[Len(messages) - (j - 1)].toolCalls = lastAnswer.toolCalls
  /\ request # Nil =>
       /\ RoundsInOrder(request.messages)
       /\ RoundsComplete(request.messages)
       /\ request.messages = messages

C2_Witness ==
  /\ request # Nil
  /\ \E p \in 1..Len(request.messages) :
       /\ request.messages[p].role = "assistant"
       /\ Len(request.messages[p].toolCalls) = 2
       /\ request.messages[p].toolCalls[1].name # request.messages[p].toolCalls[2].name
       /\ request.messages[p + 2].toolCallID = request.messages[p].toolCalls[2].id

\* The three ways a tool call fails: no broker, unknown tool, remote error.
ToolFails(name) ==
  \/ ~cfg.mcp
  \/ name \notin RegisteredTools
  \/ name \in RemoteFailing

C3_ErrorResults ==
  \A p \in 1..Len(messages) :
    messages[p].role = "assistant" =>
      \A k \in 1..Len(messages[p].toolCalls) :
        (p + k <= Len(messages) /\ ToolFails(messages[p].toolCalls[k].name)) =>
          /\ messages[p + k].role = "tool"
          /\ messages[p + k].toolCallID = messages[p].toolCalls[k].id
          /\ messages[p + k].content.kind = "error"

C3_NoAbort ==
  pc = "tool" =>
    /\ Len(messages') = Len(messages) + 1
    /\ pc' \in {"tool", "complete", "route"}
    /\ executed' = Append(executed, resp.toolCalls[j].id)
    /\ j < Len(resp.toolCalls) => (pc' = "tool" /\ j' = j + 1)
    /\ (j = Len(resp.toolCalls) /\ i + 1 < 10) => pc' = "complete"
    /\ (j = Len(resp.toolCalls) /\ i + 1 >= 10) => pc' = "route"

\* C3: a failing tool call (unknown tool, no broker, remote error) never
\* aborts the event: its result message carries the call's id and an error
\* payload, the remaining calls of the completion are executed and the
\* loop goes on to the next completion request.
C3_FailedToolNeverAborts == []C3_ErrorResults /\ [][C3_NoAbort]_vars

C3_Witness ==
  /\ pc = "completing"
  /\ completions = 2
  /\ request # Nil
  /\ \E p \in 1..Len(request.messages) - 1 :
       /\ request.messages[p].role = "tool"
       /\ request.messages[p].content.kind = "error"
       /\ request.messages[p + 1].role = "tool"

\* The final text names a configured route.
RouteOf == extractRouteFrom(resp.content)
Routed == FinalResponse /\ RouteOf # "" /\ RouteOf \in Range(cfg.routes)

\* C4 as stated: a response naming a configured route is published to that
\* route only, and no configured default destination receives it.
C4_Original ==
  (pc = "done" /\ Routed) =>
    /\ TopicsOf(DestPublishes) = << RouteOf >>
    /\ \A t \in Range(cfg.publish) : t \notin Range(TopicsOf(DestPublishes))

\* C4 (amended): a response naming a configured route is published to that
\* route as the sole destination: exactly one destination publish is made
\* and no default destination other than the route itself receives it.
C4_RouteIsSoleDestination ==
  Routed =>
    /\ targetTopics = << RouteOf >>
    /\ pc = "done" => TopicsOf(DestPublishes) = << RouteOf >>
    /\ \A t \in Range(cfg.publish) \ {RouteOf} :
         t \notin Range(TopicsOf(DestPublishes))

C4_Witness ==
  /\ pc = "done"
  /\ Routed
  /\ resp.content.fence = "json"
  /\ RouteOf = "billing"
  /\ Len(DestPublishes) = 1
  /\ "billing" \notin Range(cfg.publish)

\* C5: a route_to that is not a configured route gives the destinations of
\* a response without route_to, the whole default publish list; nothing is
\* dropped, and a warning is logged in the unrecognized case only.
C5_UnknownRouteIsDefault ==
  FinalResponse =>
    /\ RouteOf \notin Range(cfg.routes) =>
         /\ targetTopics = cfg.publish
         /\ pc \in {"reply", "done"} => TopicsOf(DestPublishes) = cfg.publish
    /\ warnings = IF RouteOf # "" /\ RouteOf \notin Range(cfg.routes)
                    THEN << RouteOf >> ELSE << >>

C5_Witness ==
  /\ pc = "done"
  /\ resp # Nil
  /\ RouteOf = "unknown"
  /\ warnings = << "unknown" >>
  /\ Len(cfg.publish) = 2
  /\ TopicsOf(DestPublishes) = cfg.publish

\* The session-carrying payloads of the claims.
SessionKeyPayload == [session |-> "u1", content |-> "hi"]
SessionIDPayload == [session_id |-> "u1", content |-> "hi"]
CreatedHere == { k \in 1..Len(createCalls) : createCalls[k].event = events }
SessionResolved == msg # Nil /\ pc \notin {"idle", "createSession"}

\* C6 as stated: with memory enabled the payload {"session":"u1",
\* "content":"hi"} is resolved to session key "u1": a session is created
\* for it on first sight or the stored mapping is used.
C6_Original ==
  (cfg.memory /\ SessionResolved /\ msg.data.obj = SessionKeyPayload) =>
    /\ userSessionID = "u1"
    /\ "u1" \in DOMAIN sessions \/ CreatedHere # {}

\* C6 (amended): with memory enabled the payload {"session_id":"u1",
\* "content":"hi"} causes exactly one session creation on first sight and,
\* when the platform creates it, one stored mapping for "u1"; a later
\* message with the same key uses the stored mapping and creates nothing.
C6_SessionCreatedOnce ==
  /\ \A k \in 1..Len(createCalls) :
       \A l \in 1..(k - 1) :
         createCalls[l].key = createCalls[k].key => createCalls[l].id = 0
  /\ \A k \in 1..Len(createCalls) :
       createCalls[k].id # 0 =>
         /\ createCalls[k].key \in DOMAIN sessions
         /\ sessions[createCalls[k].key] = createCalls[k].id
  /\ (cfg.memory /\ SessionResolved /\ msg.data.obj = SessionIDPayload) =>
       /\ userSessionID = "u1"
       /\ Cardinality(CreatedHere) <= 1
       /\ CreatedHere = {} => "u1" \in DOMAIN sessions
       /\ "u1" \in DOMAIN sessions => serverSessionID = sessions["u1"]

C6_Witness ==
  /\ events = 2
  /\ pc = "complete"
  /\ msg.data.obj = SessionIDPayload
  /\ Len(createCalls) = 1
  /\ createCalls[1].event = 1
  /\ createCalls[1].key = "u1"
  /\ createCalls[1].id # 0
  /\ serverSessionID = createCalls[1].id

\* The platform failed to create the session of the event being handled.
FailedHere ==
  msg # Nil /\ \E k \in CreatedHere : createCalls[k].id = 0

\* C7: when session creation fails the event is not aborted: it goes
\* through completion and dispatch with no session id on any completion
\* request, no mapping is stored, and a later event with the same key
\* attempts the creation again.
C7_CreationFailureProceeds ==
  /\ FailedHere =>
       /\ pc # "idle"
       /\ userSessionID \notin DOMAIN sessions
       /\ reqSessionIDs \subseteq {0}
       /\ request # Nil => ~request.includeMemory
       /\ pc = "done" => completions >= 1
       /\ (pc = "done" /\ resp # Nil) =>
            TopicsOf(DestPublishes) = targetTopics /\ Len(targetTopics) > 0
  /\ (/\ cfg.memory
      /\ SessionResolved
      /\ userSessionID # ""
      /\ \E k \in 1..Len(createCalls) :
           /\ createCalls[k].key = userSessionID
           /\ createCalls[k].event < events
      /\ \A k \in 1..Len(createCalls) :
           createCalls[k].event < events => createCalls[k].id = 0)
     => CreatedHere # {}

C7_Witness ==
  /\ pc = "done"
  /\ events = 2
  /\ Len(createCalls) = 2
  /\ createCalls[1].id = 0
  /\ createCalls[2].id = 0
  /\ createCalls[1].key = createCalls[2].key
  /\ completions >= 1
  /\ Len(DestPublishes) > 0

\* C8: a failed publish to one destination does not prevent the publishes
\* to the destinations after it: every destination of the resolved list is
\* attempted exactly once, in list order.
C8_FailedPublishDoesNotBlock ==
  /\ pc = "dispatch" =>
       TopicsOf(DestPublishes) = SubSeq(targetTopics, 1, d - 1)
  /\ (pc \in {"reply", "done"} /\ resp # Nil) =>
       TopicsOf(DestPublishes) = targetTopics

C8_Witness ==
  /\ pc = "done"
  /\ Len(DestPublishes) = 2
  /\ ~DestPublishes[1].ok
  /\ DestPublishes[2].ok

\* C9: when the event carries a reply target and a final response was
\* obtained, the reply target receives the structured result exactly once,
\* after and whatever the destinations' routing and publish outcomes.
C9_ReplyExactlyOnce ==
  (pc = "done" /\ resp # Nil) =>
    IF msg.reply # ""
      THEN /\ Len(ReplyPublishes) = 1
           /\ published[Len(published)].pub =
                [kind |-> "reply", via |-> "agent", topic |-> msg.reply,
                 data |-> [json |-> [content |-> resp.content,
                                     source_topic |-> msg.subject]]]
           /\ Len(DestPublishes) = Len(targetTopics)
      ELSE Len(ReplyPublishes) = 0

C9_Witness ==
  /\ pc = "done"
  /\ resp # Nil
  /\ routeTo # ""
  /\ Len(ReplyPublishes) = 1
  /\ \E k \in 1..Len(DestPublishes) : ~DestPublishes[k].ok

\* C10: each destination of the resolved list is published through exactly
\* one variant: the adapter's publish, with the response content, when an
\* adapter of that name is loaded, otherwise a platform publish with the
\* structured result.
C10_OneVariantPerDestination ==
  /\ \A k \in 1..Len(DestPublishes) :
       LET e == DestPublishes[k].pub
       IN  IF e.topic \in cfg.plugins
             THEN e.via = "plugin" /\ e.data = resp.content
             ELSE /\ e.via = "agent"
                  /\ e.data = [json |-> [content |-> resp.content,
                                         source_topic |-> msg.subject]]
  /\ (pc \in {"reply", "done"} /\ resp # Nil) =>
       Len(DestPublishes) = Len(targetTopics)

C10_Witness ==
  /\ pc = "done"
  /\ \E k, l \in 1..Len(DestPublishes) :
       /\ DestPublishes[k].pub.via = "plugin"
       /\ DestPublishes[l].pub.via = "agent"

\* ===================================================================
\* internal/plugin: Sandbox.IsRestricted
\* ===================================================================

\* Strings of this part are sequences of characters.
Dot == <<".">>
Alphabet == {"a", "."}
Strings == UNION { [1..n -> Alphabet] : n \in 0..MaxStr }
RestrictLists == UNION { [1..n -> Strings] : n \in 0..MaxRestrict }

\* strings.Contains, strings.HasPrefix
Contains(s, sub) ==
  \E k \in 0..(Len(s) - Len(sub)) : SubSeq(s, k + 1, k + Len(sub)) = sub
HasPrefix(s, prefix) ==
  Len(prefix) <= Len(s) /\ SubSeq(s, 1, Len(prefix)) = prefix

\* (mutant) the module-level match forgets the separating dot
IsRestrictedNoDot(s, a) ==
  IF Len(s.restrict) = 0
    THEN FALSE
    ELSE \E k \in 1..Len(s.restrict) :
           \/ s.restrict[k] = a
           \/ ~Contains(s.restrict[k], Dot) /\ HasPrefix(a, s.restrict[k])

\* Sandbox.IsRestricted: the loop returns true at the first entry that is
\* the path itself or a dot-free entry r with r+"." a prefix of the path.
IsRestricted(s, a) ==
  IF Len(s.restrict) = 0
    THEN FALSE
    ELSE \E k \in 1..Len(s.restrict) :
           \/ s.restrict[k] = a
           \/ ~Contains(s.restrict[k], Dot)
                /\ HasPrefix(a, s.restrict[k] \o Dot)

\* NewSandbox keeps the restriction list as given.
NewSandbox(restrict) == [restrict |-> restrict]

\* A sandbox and the capability path it is about to be asked for.
SandboxInit ==
  /\ sb \in { NewSandbox(r) : r \in RestrictLists }
  /\ checked \in { [api |-> a, called |-> FALSE, restricted |-> FALSE] :
                    a \in Strings }
  /\ files = Nil
  /\ lastCall = Nil
  /\ RegistryIdle
  /\ ThreadsIdle
  /\ cfg = Nil
  /\ HandlerConstructed

CheckRestricted ==
  /\ ~checked.called
  /\ checked' = [checked EXCEPT !.called = TRUE,
                                !.restricted = IsRestricted(sb, checked.api)]
  /\ UNCHANGED <<sb, files, lastCall, registryVars, threadVars,
                 handlerVars>>

SandboxNext == CheckRestricted

SandboxSpec == SandboxInit /\ [][SandboxNext]_vars

\* The module prefix of a capability path: what precedes its first dot.
FirstDot(a) == CHOOSE k \in 1..Len(a) :
                 a[k] = "." /\ \A m \in 1..(k - 1) : a[m] # "."
HasDot(a) == \E k \in 1..Len(a) : a[k] = "."
ModulePrefix(a) == SubSeq(a, 1, FirstDot(a) - 1)
Entries(s) == { s.restrict[k] : k \in 1..Len(s.restrict) }
BlockedByList(s, a) ==
  \/ a \in Entries(s)
  \/ HasDot(a) /\ ModulePrefix(a) \in Entries(s)

\* C11: IsRestricted(P) is true if and only if the restriction list holds P
\* verbatim or holds, as a dot-free entry, the module prefix of P; with an
\* empty list nothing is restricted.
C11_RestrictedIffListed ==
  checked # Nil /\ checked.called =>
    /\ checked.restricted = BlockedByList(sb, checked.api)
    /\ Len(sb.restrict) = 0 => ~checked.restricted

\* A path blocked through its module prefix only, next to an entry with a
\* dot that is a prefix of the path and blocks nothing.
C11_Witness ==
  /\ checked # Nil
  /\ checked.called
  /\ checked.restricted
  /\ checked.api \notin Entries(sb)
  /\ \E r \in Entries(sb) : HasDot(r) /\ HasPrefix(checked.api, r)

\* ===================================================================
\* internal/plugin: the capability bridge (RegisterBridge)
\* ===================================================================

\* The names the bridge functions pass to IsRestricted, and the two
\* globals, character by character.
FS == <<"f", "s">>
HTTP == <<"h", "t", "t", "p">>
JSON == <<"j", "s", "o", "n">>
FsRead == FS \o Dot \o <<"r", "e", "a", "d">>
FsWrite == FS \o Dot \o <<"w", "r", "i", "t", "e">>
FsList == FS \o Dot \o <<"l", "i", "s", "t">>
HttpGet == HTTP \o Dot \o <<"g", "e", "t">>
HttpPost == HTTP \o Dot \o <<"p", "o", "s", "t">>
JsonEncode == JSON \o Dot \o <<"e", "n", "c", "o", "d", "e">>
JsonDecode == JSON \o Dot \o <<"d", "e", "c", "o", "d", "e">>
SleepName == <<"s", "l", "e", "e", "p">>
LogName == <<"l", "o", "g">>

ModuleFunctions ==
  {FsRead, FsWrite, FsList, HttpGet, HttpPost, JsonEncode, JsonDecode}
Capabilities == ModuleFunctions \cup {SleepName, LogName}
\* What a configuration may list under restrict.
RestrictEntries == Capabilities \cup {FS, HTTP, JSON}
BridgeRestrictLists ==
  UNION { [1..n -> RestrictEntries] : n \in 0..MaxRestrict }

\* The host's files: two files of one directory and a path in a directory
\* that does not exist.
Paths == {"dir/in.txt", "dir/out.txt", "nodir/x"}
Dirs == {"dir", "nodir"}
URLs == {"http://up", "http://down"}
InitialFiles == [p \in {"dir/in.txt"} |-> "hello"]
Exists(fs, path) == path \in DOMAIN fs
Writable(path) == path # "nodir/x"
WriteFile(fs, path, data) ==
  [p \in DOMAIN fs \cup {path} |-> IF p = path THEN data ELSE fs[p]]
DirEntries(fs, dir) ==
  IF dir = "dir" THEN { p \in {"dir/in.txt", "dir/out.txt"} : Exists(fs, p) }
                 ELSE {}
Reachable(url) == url = "http://up"
\* Arguments of the codec calls: one that converts and one that does not.
CodecArgs == {"{}", "not json"}
Convertible(arg) == arg = "{}"

\* The outcome of a bridge function: the Lua error it raises ("" when it
\* returns), the value it pushes, the host operation it performed ("none"
\* when it returned before any), and the files afterwards.
Raised(kind, op) ==
  [err |-> kind, value |-> Nil, op |-> op, files |-> files]
Returned(v, op, fs) == [err |-> "", value |-> v, op |-> op, files |-> fs]

luaFSRead(s, path) ==
  IF IsRestricted(s, FsRead)
    THEN Raised("restricted", "none")
    ELSE IF ~Exists(files, path)
           THEN Raised("failed", "os.ReadFile")
           ELSE Returned(files[path], "os.ReadFile", files)

\* (mutant) fs.write without its restriction check
luaFSWriteUnchecked(s, path, data) ==
  IF ~Writable(path)
    THEN Raised("failed", "os.WriteFile")
    ELSE Returned(Nil, "os.WriteFile", WriteFile(files, path, data))

luaFSWrite(s, path, data) ==
  IF IsRestricted(s, FsWrite)
    THEN Raised("restricted", "none")
    ELSE IF ~Writable(path)
           THEN Raised("failed", "os.WriteFile")
           ELSE Returned(Nil, "os.WriteFile", WriteFile(files, path, data))

luaFSList(s, dir) ==
  IF IsRestricted(s, FsList)
    THEN Raised("restricted", "none")
    ELSE IF dir # "dir"
           THEN Raised("failed", "os.ReadDir")
           ELSE Returned(DirEntries(files, dir), "os.ReadDir", files)

\* (mutant) http.get asks for the restriction of http.post
luaHTTPGetWrongName(s, url) ==
  IF IsRestricted(s, HttpPost)
    THEN Raised("restricted", "none")
    ELSE IF ~Reachable(url) THEN Raised("failed", "http.Get")
                            ELSE Returned("response", "http.Get", files)

luaHTTPGet(s, url) ==
  IF IsRestricted(s, HttpGet)
    THEN Raised("restricted", "none")
    ELSE IF ~Reachable(url) THEN Raised("failed", "http.Get")
                            ELSE Returned("response", "http.Get", files)

luaHTTPPost(s, url) ==
  IF IsRestricted(s, HttpPost)
    THEN Raised("restricted", "none")
    ELSE IF ~Reachable(url) THEN Raised("failed", "http.Do")
                            ELSE Returned("response", "http.Do", files)

luaJSONEncode(s, val) ==
  IF IsRestricted(s, JsonEncode)
    THEN Raised("restricted", "none")
    ELSE IF ~Convertible(val) THEN Raised("failed", "json.Marshal")
                              ELSE Returned("text", "json.Marshal", files)

luaJSONDecode(s, str) ==
  IF IsRestricted(s, JsonDecode)
    THEN Raised("restricted", "none")
    ELSE IF ~Convertible(str) THEN Raised("failed", "json.Unmarshal")
                              ELSE Returned("value", "json.Unmarshal", files)

\* The sleep and log globals: registerSleep and registerLog make no call
\* to IsRestricted.
luaSleep(s) == Returned(Nil, "time.Sleep", files)
luaLog(s) == Returned(Nil, "slog", files)

\* A script of one bridge call, run in the sandbox (Sandbox.DoString): the
\* record kept of the call and of its outcome.
Called(name, arg, r) ==
  [api |-> name, arg |-> arg, err |-> r.err, value |-> r.value, op |-> r.op]

BridgeInit ==
  /\ sb \in { NewSandbox(r) : r \in BridgeRestrictLists }
  /\ checked = Nil
  /\ files = InitialFiles
  /\ lastCall = Nil
  /\ RegistryIdle
  /\ ThreadsIdle
  /\ cfg = Nil
  /\ HandlerConstructed

FSRead ==
  /\ \E path \in Paths :
       LET r == luaFSRead(sb, path)
       IN  lastCall' = Called(FsRead, path, r) /\ files' = r.files
  /\ UNCHANGED <<sb, checked, registryVars, threadVars,
                 handlerVars>>

FSWrite ==
  /\ \E path \in Paths :
       LET r == luaFSWrite(sb, path, "data")
       IN  lastCall' = Called(FsWrite, path, r) /\ files' = r.files
  /\ UNCHANGED <<sb, checked, registryVars, threadVars,
                 handlerVars>>

FSList ==
  /\ \E dir \in Dirs :
       LET r == luaFSList(sb, dir)
       IN  lastCall' = Called(FsList, dir, r) /\ files' = r.files
  /\ UNCHANGED <<sb, checked, registryVars, threadVars,
                 handlerVars>>

HTTPGet ==
  /\ \E url \in URLs :
       LET r == luaHTTPGet(sb, url)
       IN  lastCall' = Called(HttpGet, url, r) /\ files' = r.files
  /\ UNCHANGED <<sb, checked, registryVars, threadVars,
                 handlerVars>>

HTTPPost ==
  /\ \E url \in URLs :
       LET r == luaHTTPPost(sb, url)
       IN  lastCall' = Called(HttpPost, url, r) /\ files' = r.files
  /\ UNCHANGED <<sb, checked, registryVars, threadVars,
                 handlerVars>>

JSONEncode ==
  /\ \E val \in CodecArgs :
       LET r == luaJSONEncode(sb, val)
       IN  lastCall' = Called(JsonEncode, val, r) /\ files' = r.files
  /\ UNCHANGED <<sb, checked, registryVars, threadVars,
                 handlerVars>>

JSONDecode ==
  /\ \E str \in CodecArgs :
       LET r == luaJSONDecode(sb, str)
       IN  lastCall' = Called(JsonDecode, str, r) /\ files' = r.files
  /\ UNCHANGED <<sb, checked, registryVars, threadVars,
                 handlerVars>>

Sleep ==
  /\ LET r == luaSleep(sb)
     IN  lastCall' = Called(SleepName, "", r) /\ files' = r.files
  /\ UNCHANGED <<sb, checked, registryVars, threadVars,
                 handlerVars>>

Log ==
  /\ LET r == luaLog(sb)
     IN  lastCall' = Called(LogName, "", r) /\ files' = r.files
  /\ UNCHANGED <<sb, checked, registryVars, threadVars,
                 handlerVars>>

BridgeNext ==
  \/ FSRead
  \/ FSWrite
  \/ FSList
  \/ HTTPGet
  \/ HTTPPost
  \/ JSONEncode
  \/ JSONDecode
  \/ Sleep
  \/ Log

BridgeSpec == BridgeInit /\ [][BridgeNext]_vars

\* C12: for an adapter restricted with ["fs.write"], storage read and list
\* calls are served (they give the file's content and the directory's
\* names, and fail only where the file system does, never for permission),
\* while every storage write fails with the permission failure before any
\* write is performed: the files are as they were.
C12_WriteRestrictedOnly ==
  sb # Nil /\ sb.restrict = <<FsWrite>> /\ lastCall # Nil =>
    /\ files = InitialFiles
    /\ lastCall.api = FsWrite =>
         lastCall.err = "restricted" /\ lastCall.op = "none"
    /\ lastCall.api = FsRead =>
         /\ lastCall.err # "restricted"
         /\ Exists(InitialFiles, lastCall.arg) =>
              lastCall.err = "" /\ lastCall.value = InitialFiles[lastCall.arg]
    /\ lastCall.api = FsList =>
         /\ lastCall.err # "restricted"
         /\ lastCall.arg = "dir" =>
              lastCall.err = "" /\ lastCall.value = {"dir/in.txt"}

\* A write to a writable path that the restriction stopped.
C12_Witness ==
  /\ sb # Nil /\ sb.restrict = <<FsWrite>>
  /\ lastCall # Nil
  /\ lastCall.api = FsWrite /\ lastCall.arg = "dir/out.txt"
  /\ lastCall.err = "restricted"
  /\ ~Exists(files, "dir/out.txt")

\* C14 as stated: every capability of the menu, sleep and log included,
\* fails once its identifier is in the restriction list.
C14_Original ==
  lastCall # Nil /\ lastCall.api \in Entries(sb) =>
    lastCall.err = "restricted"

\* C14 (amended): every function of the storage, network and codec modules
\* is independently restrictable: a call fails with the permission failure,
\* before any host operation, exactly when its identifier or its module is
\* listed, so listing one function leaves the others working; sleep and
\* log make no restriction check and run whatever the list holds.
C14_ModuleFunctionsRestrictable ==
  lastCall # Nil =>
    /\ lastCall.api \in ModuleFunctions =>
         /\ lastCall.err = "restricted" <=> BlockedByList(sb, lastCall.api)
         /\ lastCall.err = "restricted" => lastCall.op = "none"
         /\ lastCall.err # "restricted" => lastCall.op # "none"
    /\ lastCall.api \in {SleepName, LogName} =>
         lastCall.err = "" /\ lastCall.op # "none"

\* One function of a module is listed next to sleep: the call to it is
\* stopped, and the list does not name its module.
C14_Witness ==
  /\ lastCall # Nil
  /\ sb.restrict = <<JsonDecode, SleepName>>
  /\ lastCall.api = JsonDecode
  /\ lastCall.err = "restricted"

\* ===================================================================
\* internal/plugin: Manager, as Runner.Run builds and uses it
\* ===================================================================

\* Adapter scripts: whether the file executes (DoFile), the entry points it
\* defines, the bridge call its publish function makes (<< >>: none) and
\* whether the script wraps that call in pcall.
NoCall == << >>
SourceScript ==
  [file |-> "source.lua", loads |-> TRUE, subscribe |-> TRUE,
   publish |-> FALSE, call |-> NoCall, handled |-> FALSE]
PosterScript ==
  [file |-> "poster.lua", loads |-> TRUE, subscribe |-> FALSE,
   publish |-> TRUE, call |-> HttpPost, handled |-> FALSE]
CarefulScript ==
  [file |-> "careful.lua", loads |-> TRUE, subscribe |-> TRUE,
   publish |-> TRUE, call |-> HttpPost, handled |-> TRUE]
EmptyScript ==
  [file |-> "empty.lua", loads |-> TRUE, subscribe |-> FALSE,
   publish |-> FALSE, call |-> NoCall, handled |-> FALSE]
BrokenScript ==
  [file |-> "broken.lua", loads |-> FALSE, subscribe |-> FALSE,
   publish |-> FALSE, call |-> NoCall, handled |-> FALSE]
Scripts ==
  {SourceScript, PosterScript, CarefulScript, EmptyScript, BrokenScript}

\* config.PluginConfig; Validate makes the names of a list distinct.
PluginNames == <<"src", "dst", "aux", "ext">>
PluginConfigs(k) ==
  { [name |-> PluginNames[k], script |-> s, restrict |-> r] :
      s \in Scripts, r \in {<< >>, <<HTTP>>} }
PluginLists ==
  UNION { { l \in [1..n -> UNION { PluginConfigs(k) : k \in 1..n }] :
              \A k \in 1..n : l[k].name = PluginNames[k] } :
          n \in 0..MaxPlugins }
SubscribeLists == { <<"in">>, <<"src">>, <<"src", "in">> }
\* Names a caller may pass to the Manager.
CallNames == { PluginNames[k] : k \in 1..MaxPlugins } \cup {"nonexistent"}

Put(f, key, v) ==
  [x \in DOMAIN f \cup {key} |-> IF x = key THEN v ELSE f[x]]

\* Manager.HasPlugin
HasPlugin(name) == name \in DOMAIN plugins

\* (mutant) the adapter is indexed before its script is executed
LoadPluginIndexesFirst(p) ==
  LET ps == [sandbox |-> NewSandbox(p.restrict), L |-> p.script]
  IN  IF ~p.script.loads
        THEN [err |-> "failed to load plugin",
              plugins |-> Put(plugins, p.name, ps)]
        ELSE [err |-> "", plugins |-> Put(plugins, p.name, ps)]

\* Manager.LoadPlugin: a sandbox is built, the file is executed and, when
\* that succeeded, the adapter is indexed by its name.  L is the Lua state
\* after the script ran: the globals it defined.
LoadPlugin(p) ==
  LET ps == [sandbox |-> NewSandbox(p.restrict), L |-> p.script]
  IN  IF ~p.script.loads
        THEN [err |-> "failed to load plugin", plugins |-> plugins]
        ELSE [err |-> "", plugins |-> Put(plugins, p.name, ps)]

\* (mutant) the source is started without looking for the entry point
StartSubscribeNoEntryCheck(name) ==
  IF ~HasPlugin(name)
    THEN [err |-> "plugin not found", started |-> FALSE]
    ELSE [err |-> "", started |-> TRUE]

\* Manager.StartSubscribe up to the go statement.
StartSubscribe(name) ==
  IF ~HasPlugin(name)
    THEN [err |-> "plugin not found", started |-> FALSE]
    ELSE IF ~plugins[name].L.subscribe
           THEN [err |-> "does not define a subscribe function",
                 started |-> FALSE]
           ELSE [err |-> "", started |-> TRUE]

\* The bridge call a script makes, in its sandbox.
BridgeCall(s, name) ==
  CASE name = HttpPost -> luaHTTPPost(s, "http://up")
    [] name = HttpGet -> luaHTTPGet(s, "http://up")
    [] OTHER -> luaLog(s)

\* The script's publish function: it ends with an error when its bridge
\* call raised one and the script did not catch it.
RunPublish(ps) ==
  IF ps.L.call = NoCall
    THEN [raised |-> FALSE, call |-> Nil]
    ELSE LET r == BridgeCall(ps.sandbox, ps.L.call)
         IN  [raised |-> r.err # "" /\ ~ps.L.handled,
              call |-> Called(ps.L.call, "http://up", r)]

\* (mutant) the entry point is called without Protect
CallByParamUnprotected(raised) == IF raised THEN "panic" ELSE "ok"

\* LState.CallByParam with Protect: true.
CallByParam(raised) == IF raised THEN "error" ELSE "ok"

\* Manager.Publish
Publish(name) ==
  IF ~HasPlugin(name)
    THEN [err |-> "plugin not found", invoked |-> FALSE, call |-> Nil]
    ELSE IF ~plugins[name].L.publish
      THEN [err |-> "does not define a publish function",
            invoked |-> FALSE, call |-> Nil]
      ELSE LET run == RunPublish(plugins[name])
               out == CallByParam(run.raised)
           IN  [err |-> CASE out = "ok" -> ""
                          [] out = "error" -> "publish failed"
                          [] OTHER -> "panic",
                invoked |-> TRUE, call |-> run.call]

\* Runner.Run from the creation of the plugin manager on.
RegistryInit ==
  /\ pluginCfgs \in PluginLists
  /\ subscribeTopics \in SubscribeLists
  /\ plugins = EmptyObj
  /\ runPc = IF Len(pluginCfgs) > 0 THEN "load" ELSE "subscribe"
  /\ loadIdx = 1
  /\ goroutines = {}
  /\ ret = Nil
  /\ sb = Nil
  /\ checked = Nil
  /\ files = InitialFiles
  /\ lastCall = Nil
  /\ ThreadsIdle
  /\ cfg = Nil
  /\ HandlerConstructed

\* (mutant) Run goes on to the next adapter after a failed load
AfterLoadSkipsFailed(err) ==
  IF loadIdx < Len(pluginCfgs) THEN "load" ELSE "subscribe"

\* Run's loop over the configured adapters: a load error is returned.
AfterLoad(err) ==
  IF err # ""
    THEN "loadFailed"
    ELSE IF loadIdx < Len(pluginCfgs) THEN "load" ELSE "subscribe"

RunLoadPlugin ==
  /\ runPc = "load"
  /\ LET p == pluginCfgs[loadIdx]
         r == LoadPlugin(p)
         next == AfterLoad(r.err)
     IN  /\ plugins' = r.plugins
         /\ ret' = [op |-> "LoadPlugin", name |-> p.name, err |-> r.err,
                    invoked |-> FALSE]
         /\ runPc' = next
         /\ loadIdx' = CASE next = "load" -> loadIdx + 1
                         [] next = "subscribe" -> 1
                         [] OTHER -> loadIdx
  /\ UNCHANGED <<pluginCfgs, subscribeTopics, goroutines, sb, checked, files,
                 lastCall, threadVars, handlerVars>>

\* Run's loop over the subscribe topics: an adapter name starts the
\* adapter's source, any other name is subscribed on the platform; an
\* error of either is returned.
RunSubscribe ==
  /\ runPc = "subscribe"
  /\ LET topic == subscribeTopics[loadIdx]
         next == IF loadIdx < Len(subscribeTopics) THEN "subscribe"
                                                   ELSE "running"
     IN  IF HasPlugin(topic)
           THEN LET r == StartSubscribe(topic)
                IN  /\ ret' = [op |-> "StartSubscribe", name |-> topic,
                               err |-> r.err, invoked |-> FALSE]
                    /\ goroutines' = IF r.started
                                       THEN goroutines \cup {topic}
                                       ELSE goroutines
                    /\ runPc' = IF r.err # "" THEN "subscribeFailed" ELSE next
                    /\ loadIdx' = IF r.err = "" /\ next = "subscribe"
                                    THEN loadIdx + 1 ELSE loadIdx
           ELSE \E ok \in BOOLEAN :
                  /\ runPc' = IF ok THEN next ELSE "subscribeFailed"
                  /\ loadIdx' = IF ok /\ next = "subscribe"
                                  THEN loadIdx + 1 ELSE loadIdx
                  /\ UNCHANGED <<ret, goroutines>>
  /\ UNCHANGED <<pluginCfgs, subscribeTopics, plugins, sb, checked, files,
                 lastCall, threadVars, handlerVars>>

\* A caller of Manager.StartSubscribe (the tests call it directly).
StartSubscribeCall ==
  /\ runPc \in {"running", "stopped"}
  /\ \E name \in CallNames :
       LET r == StartSubscribe(name)
       IN  /\ ret' = [op |-> "StartSubscribe", name |-> name, err |-> r.err,
                      invoked |-> FALSE]
           /\ goroutines' = IF r.started THEN goroutines \cup {name}
                                         ELSE goroutines
  /\ UNCHANGED <<pluginCfgs, subscribeTopics, plugins, runPc, loadIdx, sb,
                 checked, files, lastCall, threadVars, handlerVars>>

\* A caller of Manager.Publish (Handle's dispatch, the tests).
PublishCall ==
  /\ runPc \in {"running", "stopped"}
  /\ \E name \in CallNames :
       LET r == Publish(name)
       IN  /\ ret' = [op |-> "Publish", name |-> name,
                      err |-> IF r.err = "panic" THEN "" ELSE r.err,
                      invoked |-> r.invoked]
           /\ lastCall' = IF r.invoked THEN r.call ELSE lastCall
           /\ runPc' = IF r.err = "panic" THEN "crashed" ELSE runPc
  /\ UNCHANGED <<pluginCfgs, subscribeTopics, plugins, loadIdx, goroutines,
                 sb, checked, files, threadVars, handlerVars>>

\* Run returns (the context is done, or a subscription failed): the
\* deferred Manager.Close empties the registry.
Shutdown ==
  /\ runPc \in {"running", "subscribeFailed"}
  /\ plugins' = EmptyObj
  /\ runPc' = "stopped"
  /\ UNCHANGED <<pluginCfgs, subscribeTopics, loadIdx, goroutines, ret, sb,
                 checked, files, lastCall, threadVars, handlerVars>>

RegistryNext ==
  \/ RunLoadPlugin
  \/ RunSubscribe
  \/ StartSubscribeCall
  \/ PublishCall
  \/ Shutdown

RegistrySpec == RegistryInit /\ [][RegistryNext]_vars

\* ------------------------------------------------ claims on the registry

\* The configuration of the adapter called name.
ConfigOf(name) ==
  pluginCfgs[CHOOSE k \in 1..Len(pluginCfgs) : pluginCfgs[k].name = name]
Configured(name) == \E k \in 1..Len(pluginCfgs) : pluginCfgs[k].name = name
\* The last Manager call was a Publish that ran the script's entry point
\* and the script made a bridge call.
PublishedWithCall ==
  ret # Nil /\ ret.op = "Publish" /\ ret.invoked /\ lastCall # Nil
\* A step that is a call of StartSubscribe or Publish.
ManagerCallStep ==
  /\ ret' # Nil
  /\ ret'.op \in {"StartSubscribe", "Publish"}
  /\ ret' # ret \/ lastCall' # lastCall \/ goroutines' # goroutines
                \/ runPc' = "crashed"
\* The adapter is not loaded or lacks the entry point the call needs.
Lacks(name, op) ==
  \/ ~HasPlugin(name)
  \/ op = "StartSubscribe" /\ ~plugins[name].L.subscribe
  \/ op = "Publish" /\ ~plugins[name].L.publish

C13_Outcome ==
  /\ runPc # "crashed"
  /\ PublishedWithCall =>
       LET c == ConfigOf(ret.name)
           blocked == IsRestricted(NewSandbox(c.restrict), lastCall.api)
       IN  /\ lastCall.err = "restricted" <=> blocked
           /\ blocked /\ ~c.script.handled => ret.err = "publish failed"
           /\ blocked /\ c.script.handled => ret.err = ""
           /\ ~blocked => ret.err = ""

C13_Step ==
  ManagerCallStep /\ ret'.op = "Publish" =>
    /\ plugins' = plugins
    /\ goroutines' = goroutines
    /\ runPc' = runPc

\* C13: a blocked capability call is an ordinary failure of the call inside
\* the script (a script that catches it goes on and its publish succeeds);
\* when the publish entry point does not catch it, Manager.Publish returns
\* an error; no such call crashes the host, the registry is as it was, and
\* a later publish whose call is not blocked succeeds.
C13_BlockedCallIsAnError == []C13_Outcome /\ [][C13_Step]_vars

\* A publish that failed on a restricted call, the agent still running
\* with the adapter in its registry.
C13_Witness ==
  /\ PublishedWithCall
  /\ lastCall.err = "restricted"
  /\ ret.err = "publish failed"
  /\ runPc = "running"
  /\ HasPlugin(ret.name)

\* C15 as stated: loading fails exactly when the script has a syntax error
\* or defines neither entry point, and no indexed script lacks both.
C15_Original ==
  /\ \A n \in DOMAIN plugins : plugins[n].L.subscribe \/ plugins[n].L.publish
  /\ ret # Nil /\ ret.op = "LoadPlugin" =>
       LET s == ConfigOf(ret.name).script
       IN  ret.err # "" <=> (~s.loads \/ (~s.subscribe /\ ~s.publish))

\* C15 (amended): loading fails with a load error exactly when the script
\* fails to execute (a syntax error), and such a script is never indexed; a
\* script that registers neither entry point loads without error and is
\* indexed.
C15_LoadFailsOnScriptError ==
  /\ \A n \in DOMAIN plugins : plugins[n].L.loads
  /\ ret # Nil /\ ret.op = "LoadPlugin" =>
       LET s == ConfigOf(ret.name).script
       IN  /\ ret.err # "" <=> ~s.loads
           /\ ret.err = "" /\ runPc # "stopped" =>
                HasPlugin(ret.name) /\ plugins[ret.name].L = s

\* A script without entry points was loaded without error and is indexed.
C15_Witness ==
  /\ ret # Nil /\ ret.op = "LoadPlugin" /\ ret.err = ""
  /\ HasPlugin(ret.name)
  /\ ~plugins[ret.name].L.subscribe /\ ~plugins[ret.name].L.publish

C18_Step ==
  ManagerCallStep /\ Lacks(ret'.name, ret'.op) =>
    /\ ret'.err # ""
    /\ ~ret'.invoked
    /\ plugins' = plugins
    /\ goroutines' = goroutines
    /\ lastCall' = lastCall
    /\ runPc' \in {runPc, "subscribeFailed"}

\* C18: StartSubscribe(name) and Publish(name) return an error, start no
\* source thread and invoke no script when no adapter named name is loaded
\* or the loaded adapter lacks the entry point; the registry is unchanged.
C18_AbsentEntryPointFails == [][C18_Step]_vars

\* Publish was refused for a loaded adapter that defines no publish.
C18_Witness ==
  /\ ret # Nil /\ ret.op = "Publish"
  /\ HasPlugin(ret.name) /\ ~plugins[ret.name].L.publish
  /\ ret.err = "does not define a publish function"
  /\ ~ret.invoked

\* ===================================================================
\* internal/plugin + internal/runner: the threads of a running agent
\* ===================================================================

\* The source goroutine StartSubscribe starts for adapter "src", and the
\* thread on which the platform subscription calls handler.Handle.
Threads == {"source", "platform"}
Adapters == {"src", "dst"}

\* sync.RWMutex: read locks are granted while no writer holds or waits.
Unlocked == [readers |-> {}, writer |-> FALSE, waiting |-> FALSE]
CanRLock(m) == ~m.writer /\ ~m.waiting

\* (mutant) Close waits until the source goroutine has ended
CloseReadyAfterLoops ==
  /\ mu.readers = {}
  /\ ~mu.writer
  /\ thr["source"].pc \in {"returned", "ended", "recovered"}

\* m.mu.Lock() in Close is granted when nobody holds the mutex.
CloseReady == mu.readers = {} /\ ~mu.writer

\* (mutant) the callback hands the datum over and returns at once
AfterCallbackDetached == "lua"

\* The callback built by StartSubscribe calls Run's closure, and that calls
\* handler.Handle, on the goroutine of the script: the script gets control
\* back when Handle has returned.
AfterCallback == "handle"

\* How the goroutine of StartSubscribe ends: a panic is recovered by the
\* deferred function, an error of CallByParam is logged, or the script's
\* subscribe function returns.
GoroutineEnd(how) ==
  CASE how = "panic" -> "recovered"
    [] how = "error" -> "ended"
    [] OTHER -> "returned"

\* Where a thread goes when the event in its hand is done, or when a
\* panic unwinds it.
AfterEvent(t) == IF t = "source" THEN "lua" ELSE "idle"
AfterPanic(t) == IF t = "source" THEN GoroutineEnd("panic") ELSE "panicked"

\* The threads executing inside the Lua state of adapter a: the source
\* goroutine while the script runs, a thread inside Publish's GetGlobal and
\* CallByParam, and Run while Close is in sandbox.Close() of a.
InL(a) ==
  { t \in Threads : thr[t].pc = "inLua" /\ thr[t].dest = a }
    \cup (IF a = "src" /\ thr["source"].pc = "lua" THEN {"source"} ELSE {})
    \cup (IF mainPc = "closing" /\ closeTarget = a THEN {"main"} ELSE {})

\* Run has loaded the adapters and started the source; it waits for
\* shutdown.
RunningInit ==
  /\ \E s \in {SourceScript, CarefulScript} :
       plugins = [a \in Adapters |->
                    [sandbox |-> NewSandbox(<< >>),
                     L |-> IF a = "src" THEN s ELSE PosterScript]]
  /\ mu = Unlocked
  /\ thr = [t \in Threads |->
              [pc |-> IF t = "source" THEN "lua" ELSE "idle", dest |-> ""]]
  /\ mainPc = "running"
  /\ closeTarget = ""
  /\ closed = {}
  /\ closeRet = Nil
  /\ emitted = 0
  /\ forwarded = 0
  /\ handled = 0
  /\ delivered = 0
  /\ pluginCfgs = << >>
  /\ subscribeTopics = <<"src", "in">>
  /\ runPc = "running"
  /\ loadIdx = 1
  /\ goroutines = {"src"}
  /\ ret = Nil
  /\ sb = Nil
  /\ checked = Nil
  /\ files = InitialFiles
  /\ lastCall = Nil
  /\ cfg = Nil
  /\ HandlerConstructed

restOfRunning == <<handled, pluginCfgs, subscribeTopics, runPc, loadIdx, goroutines,
                   ret, sb, checked, files, lastCall, handlerVars>>
restOfRegistry == <<pluginCfgs, subscribeTopics, runPc, loadIdx, goroutines,
                    ret, sb, checked, files, lastCall, handlerVars>>

\* The destinations of an answer: the adapters, and a platform topic that
\* is no adapter's name.
Destinations == Adapters \cup {"out"}

\* The script calls callback(data).
Emit ==
  /\ thr["source"].pc = "lua"
  /\ emitted < MaxData
  /\ \E topic \in Destinations :
       thr' = [thr EXCEPT !["source"] = [pc |-> AfterCallback, dest |-> topic]]
  /\ emitted' = emitted + 1
  /\ forwarded' = forwarded + 1
  /\ UNCHANGED <<mu, mainPc, closeTarget, closed, closeRet, delivered,
                 plugins, restOfRunning>>

\* The platform subscription calls handler.Handle with an event.
Deliver ==
  /\ thr["platform"].pc = "idle"
  /\ delivered < MaxData
  /\ \E topic \in Destinations :
       thr' = [thr EXCEPT !["platform"] = [pc |-> "handle", dest |-> topic]]
  /\ delivered' = delivered + 1
  /\ UNCHANGED <<mu, mainPc, closeTarget, closed, closeRet, emitted,
                 forwarded, plugins, restOfRunning>>

\* The script's subscribe function returns.
SourceReturn ==
  /\ thr["source"].pc = "lua"
  /\ thr' = [thr EXCEPT !["source"].pc = GoroutineEnd("return")]
  /\ UNCHANGED <<mu, mainPc, closeTarget, closed, closeRet, emitted,
                 forwarded, delivered, plugins, restOfRunning>>

\* The script runs on a Lua state that Close has closed: the interpreter
\* panics or CallByParam returns an error (or, no step: the script is in a
\* call that does not touch the state and goes on).
SourceInterrupted ==
  /\ thr["source"].pc = "lua"
  /\ "src" \in closed
  /\ \E how \in {"panic", "error"} :
       thr' = [thr EXCEPT !["source"].pc = GoroutineEnd(how)]
  /\ UNCHANGED <<mu, mainPc, closeTarget, closed, closeRet, emitted,
                 forwarded, delivered, plugins, restOfRunning>>

\* Handle up to the dispatch of the answer.
Process(t) ==
  /\ thr[t].pc = "handle"
  /\ thr' = [thr EXCEPT ![t].pc = "isPlugin"]
  /\ UNCHANGED <<mu, mainPc, closeTarget, closed, closeRet, emitted,
                 forwarded, delivered, plugins, restOfRunning>>

\* h.plugins.IsPlugin(topic): m.mu.RLock()
RLockIsPlugin(t) ==
  /\ thr[t].pc = "isPlugin"
  /\ CanRLock(mu)
  /\ mu' = [mu EXCEPT !.readers = @ \cup {t}]
  /\ thr' = [thr EXCEPT ![t].pc = "isPluginHeld"]
  /\ UNCHANGED <<mainPc, closeTarget, closed, closeRet, emitted, forwarded,
                 delivered, plugins, restOfRunning>>

\* Handle, lines 318-324: a name IsPlugin finds goes to Manager.Publish,
\* every other name to h.agent.Publish.
DispatchBranch(found) ==
  IF found THEN "publish" ELSE "agentPublish"

\* ... the lookup and the deferred m.mu.RUnlock().
RUnlockIsPlugin(t) ==
  /\ thr[t].pc = "isPluginHeld"
  /\ mu' = [mu EXCEPT !.readers = @ \ {t}]
  /\ thr' = [thr EXCEPT ![t].pc = DispatchBranch(HasPlugin(thr[t].dest))]
  /\ UNCHANGED <<mainPc, closeTarget, closed, closeRet, emitted, forwarded,
                 delivered, plugins, restOfRunning>>

\* h.agent.Publish(ctx, topic, responseData): the answer is published on
\* the platform topic of that name.
AgentPublish(t) ==
  /\ thr[t].pc = "agentPublish"
  /\ thr' = [thr EXCEPT ![t].pc = "finish"]
  /\ UNCHANGED <<mu, mainPc, closeTarget, closed, closeRet, emitted,
                 forwarded, delivered, plugins, restOfRunning>>

\* Manager.Publish: m.mu.RLock()
RLockPublish(t) ==
  /\ thr[t].pc = "publish"
  /\ CanRLock(mu)
  /\ mu' = [mu EXCEPT !.readers = @ \cup {t}]
  /\ thr' = [thr EXCEPT ![t].pc = "publishHeld"]
  /\ UNCHANGED <<mainPc, closeTarget, closed, closeRet, emitted, forwarded,
                 delivered, plugins, restOfRunning>>

\* ... the lookup and m.mu.RUnlock(); with the adapter found, Publish goes
\* on into its Lua state (GetGlobal, CallByParam) holding no lock.
RUnlockPublish(t) ==
  /\ thr[t].pc = "publishHeld"
  /\ mu' = [mu EXCEPT !.readers = @ \ {t}]
  /\ thr' = [thr EXCEPT ![t].pc =
               IF HasPlugin(thr[t].dest) THEN "inLua" ELSE "finish"]
  /\ UNCHANGED <<mainPc, closeTarget, closed, closeRet, emitted, forwarded,
                 delivered, plugins, restOfRunning>>

\* Publish's calls into the Lua state end: normally, or, on a state that
\* Close has closed, possibly with an error or a panic.
LeaveLua(t) ==
  /\ thr[t].pc = "inLua"
  /\ \E out \in {"ok", "error", "panic"} :
       /\ out # "ok" => thr[t].dest \in closed
       /\ thr' = [thr EXCEPT ![t].pc =
                    IF out = "panic" THEN AfterPanic(t) ELSE "finish"]
  /\ UNCHANGED <<mu, mainPc, closeTarget, closed, closeRet, emitted,
                 forwarded, delivered, plugins, restOfRunning>>

\* Handle returns: the callback returns to the script, the subscription
\* thread is free for the next event.
Finish(t) ==
  /\ thr[t].pc = "finish"
  /\ thr' = [thr EXCEPT ![t] = [pc |-> AfterEvent(t), dest |-> ""]]
  /\ handled' = IF t = "source" THEN handled + 1 ELSE handled
  /\ UNCHANGED <<mu, mainPc, closeTarget, closed, closeRet, emitted,
                 forwarded, delivered, plugins, restOfRegistry>>

\* ctx is done: Run returns and its deferred pluginMgr.Close() asks for
\* m.mu.Lock().
CloseCall ==
  /\ mainPc = "running"
  /\ mainPc' = "closeLock"
  /\ mu' = [mu EXCEPT !.waiting = TRUE]
  /\ UNCHANGED <<thr, closeTarget, closed, closeRet, emitted, forwarded,
                 delivered, plugins, restOfRunning>>

\* Close holds the mutex and enters sandbox.Close() of an adapter (Go
\* ranges over the map in no fixed order).
CloseLock ==
  /\ mainPc = "closeLock"
  /\ CloseReady
  /\ mu' = [mu EXCEPT !.writer = TRUE, !.waiting = FALSE]
  /\ mainPc' = "closing"
  /\ closeTarget' \in DOMAIN plugins
  /\ UNCHANGED <<thr, closed, closeRet, emitted, forwarded, delivered,
                 plugins, restOfRunning>>

\* sandbox.Close() of one adapter is done; the loop enters the next.
CloseSandbox ==
  /\ mainPc = "closing"
  /\ closeTarget # ""
  /\ closed' = closed \cup {closeTarget}
  /\ LET rest == DOMAIN plugins \ closed'
     IN  IF rest = {} THEN closeTarget' = "" ELSE closeTarget' \in rest
  /\ UNCHANGED <<mu, thr, mainPc, closeRet, emitted, forwarded, delivered,
                 plugins, restOfRunning>>

\* m.plugins = make(...); the deferred Unlock; return nil
CloseReturn ==
  /\ mainPc = "closing"
  /\ closeTarget = ""
  /\ plugins' = EmptyObj
  /\ mu' = [mu EXCEPT !.writer = FALSE]
  /\ mainPc' = "closed"
  /\ closeRet' = [err |-> ""]
  /\ UNCHANGED <<thr, closeTarget, closed, emitted, forwarded, delivered,
                 restOfRunning>>

RunningNext ==
  \/ Emit
  \/ Deliver
  \/ SourceReturn
  \/ SourceInterrupted
  \/ \E t \in Threads : Process(t)
  \/ \E t \in Threads : RLockIsPlugin(t)
  \/ \E t \in Threads : RUnlockIsPlugin(t)
  \/ \E t \in Threads : AgentPublish(t)
  \/ \E t \in Threads : RLockPublish(t)
  \/ \E t \in Threads : RUnlockPublish(t)
  \/ \E t \in Threads : LeaveLua(t)
  \/ \E t \in Threads : Finish(t)
  \/ CloseCall
  \/ CloseLock
  \/ CloseSandbox
  \/ CloseReturn

RunningSpec == RunningInit /\ [][RunningNext]_vars

\* Go code runs on: a thread that holds the read lock releases it, and
\* Close proceeds whenever it can.  Nothing is assumed of the scripts.
RunningFair ==
  /\ RunningInit
  /\ [][RunningNext]_vars
  /\ \A t \in Threads : WF_vars(RUnlockIsPlugin(t))
  /\ \A t \in Threads : WF_vars(RUnlockPublish(t))
  /\ WF_vars(CloseLock)
  /\ WF_vars(CloseSandbox)
  /\ WF_vars(CloseReturn)

\* -------------------------------------------------------------------
\* Claims about the threads
\* -------------------------------------------------------------------

\* A datum of the source is in the orchestrator's hands: Handle was called
\* for it and has not returned.
InProcessing == handled < forwarded

\* C17 as stated: each callback invocation forwards exactly one datum, and
\* while the orchestrator still processes a datum of the source, the
\* source's script is not held in the callback: it can go on.
C17_Original ==
  /\ forwarded = emitted
  /\ InProcessing =>
       thr["source"].pc \notin {"handle", "isPlugin", "isPluginHeld",
                                "agentPublish", "publish", "publishHeld",
                                "inLua", "finish"}

\* C17: each callback invocation forwards exactly one datum to the
\* orchestrator, on the goroutine of the script: while that datum is
\* processed the script neither runs nor has returned, so at most one
\* datum of a source is in processing and the next one is emitted after
\* Handle returned.
C17_CallbackIsSynchronous ==
  /\ forwarded = emitted
  /\ forwarded \in {handled, handled + 1}
  /\ InProcessing => thr["source"].pc \notin {"lua", "returned"}

\* The second datum of the source is in Publish, the first one is done.
C17_Witness ==
  /\ emitted = 2
  /\ handled = 1
  /\ thr["source"].pc = "inLua"

\* C19: Close, once called, returns, with a nil error, whatever the
\* source goroutine does (no step of the script is required); the source
\* goroutine never ends in an unrecovered panic.
C19_Safe ==
  /\ thr["source"].pc # "panicked"
  /\ mainPc = "closed" => closeRet = [err |-> ""]
  /\ mainPc # "closed" => closeRet = Nil

C19_CloseTerminates ==
  /\ []C19_Safe
  /\ (mainPc = "closeLock") ~> (mainPc = "closed")

\* Close has returned and the loop it interrupted ended in the recover of
\* its goroutine.
C19_Witness ==
  /\ mainPc = "closed"
  /\ closeRet = [err |-> ""]
  /\ thr["source"].pc = "recovered"
  /\ "src" \in closed

\* C20 as stated: at most one thread at a time is inside the Lua state of
\* an adapter.
C20_OneThreadPerInterpreter ==
  \A a \in Adapters : Cardinality(InL(a)) <= 1

\* Two events processed at the same time, one emitted by the source and
\* one delivered by the platform, are both inside Publish's calls into
\* the Lua state of the same adapter.
C20_Witness ==
  /\ thr["source"].pc = "inLua"
  /\ thr["platform"].pc = "inLua"
  /\ thr["source"].dest = "dst"
  /\ thr["platform"].dest = "dst"

\* ===================================================================
\* internal/runner: ensureSession under concurrently handled events
\* ===================================================================

\* Handle is the callback of the platform subscription and of every
\* source goroutine: two events are in ensureSession at once.  h.sessions
\* is a plain Go map; the handler has no mutex.
SessionKeys == {"u1", "u2"}

\* The thread is in the map lookup / in the map assignment of ensureSession.
ReadsSessions(t) == thr[t].pc = "lookup"
WritesSessions(t) == thr[t].pc = "store"
InSessions(t) == ReadsSessions(t) \/ WritesSessions(t)

SessionsInit ==
  /\ cfg \in { c \in Configs : c.memory }
  /\ HandlerConstructed
  /\ thr = [t \in Threads |-> [pc |-> "idle", key |-> "", id |-> 0]]
  /\ mu = Nil
  /\ mainPc = "none"
  /\ closeTarget = ""
  /\ closed = {}
  /\ closeRet = Nil
  /\ emitted = 0
  /\ forwarded = 0
  /\ handled = 0
  /\ delivered = 0
  /\ sb = Nil
  /\ checked = Nil
  /\ files = Nil
  /\ lastCall = Nil
  /\ RegistryIdle

restOfSessions == <<cfg, events, pc, msg, userSessionID, serverSessionID,
                    messages, i, resp, j, routeTo, targetTopics, d, shape,
                    completions, request, lastAnswer, reqSessionIDs,
                    executed, published, warnings, sb, checked, files,
                    lastCall, registryVars, mu, mainPc, closeTarget, closed,
                    closeRet, emitted, forwarded, handled, sideVars>>

\* Handle is called with a payload that carries a session key (memory is
\* enabled): ensureSession starts.
SessionEvent(t) ==
  /\ thr[t].pc = "idle"
  /\ delivered < MaxData
  /\ \E key \in SessionKeys :
       thr' = [thr EXCEPT ![t] = [pc |-> "lookup", key |-> key, id |-> 0]]
  /\ delivered' = delivered + 1
  /\ UNCHANGED <<sessions, createCalls, restOfSessions>>

\* ensureSession, lines 379-381: the lookup; a mapping found is returned.
SessionLookup(t) ==
  /\ thr[t].pc = "lookup"
  /\ thr' = [thr EXCEPT ![t] =
               IF HasSession(thr[t].key)
                 THEN [pc |-> "resolved", key |-> thr[t].key,
                       id |-> sessions[thr[t].key]]
                 ELSE [pc |-> "create", key |-> thr[t].key, id |-> 0]]
  /\ UNCHANGED <<sessions, createCalls, delivered, restOfSessions>>

\* ensureSession, lines 386-396: the platform answers CreateSession.
SessionCreate(t) ==
  /\ thr[t].pc = "create"
  /\ \E ok \in BOOLEAN :
       LET id == IF ok THEN Len(createCalls) + 1 ELSE 0
       IN  /\ createCalls' = Append(createCalls,
                                    [key |-> thr[t].key, id |-> id,
                                     event |-> delivered])
           /\ thr' = [thr EXCEPT ![t].pc = IF ok THEN "store" ELSE "resolved",
                                 ![t].id = id]
  /\ UNCHANGED <<sessions, delivered, restOfSessions>>

\* ensureSession, line 399: the map assignment.  When another thread is in
\* the map at the same time the Go runtime may stop the process
\* ("concurrent map writes"), or the assignment goes through.
SessionStore(t) ==
  /\ thr[t].pc = "store"
  /\ \/ /\ sessions' = SessionsAfterCreate(thr[t].key, thr[t].id)
        /\ thr' = [thr EXCEPT ![t].pc = "resolved"]
     \/ /\ \E u \in Threads \ {t} : InSessions(u)
        /\ thr' = [thr EXCEPT ![t].pc = "fatal"]
        /\ UNCHANGED sessions
  /\ UNCHANGED <<createCalls, delivered, restOfSessions>>

\* The rest of Handle, which does not touch h.sessions.
SessionEventDone(t) ==
  /\ thr[t].pc = "resolved"
  /\ \A u \in Threads : thr[u].pc # "fatal"
  /\ thr' = [thr EXCEPT ![t] = [pc |-> "idle", key |-> "", id |-> 0]]
  /\ UNCHANGED <<sessions, createCalls, delivered, restOfSessions>>

SessionsNext ==
  \/ \E t \in Threads : SessionEvent(t)
  \/ \E t \in Threads : SessionLookup(t)
  \/ \E t \in Threads : SessionCreate(t)
  \/ \E t \in Threads : SessionStore(t)
  \/ \E t \in Threads : SessionEventDone(t)

SessionsSpec == SessionsInit /\ [][SessionsNext]_vars

\* C21 as stated: every mutation of the session mapping is mutually
\* exclusive with every other read or write of it.
C21_SessionsExclusive ==
  \A t \in Threads, u \in Threads :
    t # u /\ WritesSessions(t) => ~InSessions(u)

\* Two events with the same session key are handled at once; both found
\* no mapping and both are storing the session they created.
C21_Witness ==
  /\ WritesSessions("source")
  /\ WritesSessions("platform")
  /\ thr["source"].key = thr["platform"].key

\* ===================================================================
\* internal/runner: ChannelEventBus
\* ===================================================================

\* The threads that emit events are the threads that run Handle; the TUI
\* receives from Events(); runWithTUI closes the bus when it returns.
NewEventBus(bufferSize) ==
  [ch |-> << >>, bufferSize |-> bufferSize, closed |-> FALSE,
   chClosed |-> FALSE]

NotSending == [pc |-> "idle", ev |-> 0, out |-> "", room |-> FALSE,
               open |-> FALSE]

BusInit ==
  /\ \E bufferSize \in 1..MaxBuffer : bus = NewEventBus(bufferSize)
  /\ snd = [t \in Threads |-> NotSending]
  /\ busLog = [accepted |-> << >>, received |-> << >>, sent |-> 0]
  /\ cfg = Nil
  /\ HandlerFields
  /\ EventsIdle
  /\ BrokerIdle
  /\ PureIdle
  /\ AuxIdle
  /\ HostIdle

restOfBus == <<cfg, sessions, events, pc, msg, userSessionID,
               serverSessionID, messages, i, resp, j, routeTo, targetTopics,
               d, shape, completions, request, lastAnswer, reqSessionIDs,
               createCalls, executed, published, warnings, hostVars, ev,
               brokerVars, pureVars, auxVars>>

\* (mutant) the event is buffered whether or not the channel has room
TrySendUnbounded(b, event) == Append(b.ch, event)

\* select { case b.ch <- event: default: } on an open channel: the event
\* is buffered when the channel has room, else nothing happens.
TrySend(b, event) ==
  IF Len(b.ch) < b.bufferSize THEN Append(b.ch, event) ELSE b.ch

\* Send is called: "if b.closed { return }".
SendCall(t) ==
  /\ snd[t].pc = "idle"
  /\ busLog.sent < MaxSends
  /\ busLog' = [busLog EXCEPT !.sent = @ + 1]
  /\ snd' = [snd EXCEPT ![t] =
               IF bus.closed
                 THEN [pc |-> "idle", ev |-> busLog'.sent, out |-> "dropped",
                       room |-> Len(bus.ch) < bus.bufferSize, open |-> FALSE]
                 ELSE [pc |-> "select", ev |-> busLog'.sent, out |-> "",
                       room |-> FALSE, open |-> FALSE]]
  /\ UNCHANGED <<bus, restOfBus>>

\* Send's select.  On a channel that Close has closed meanwhile the send
\* case panics.
SendSelect(t) ==
  /\ snd[t].pc = "select"
  /\ IF bus.chClosed
       THEN /\ snd' = [snd EXCEPT ![t].pc = "panicked", ![t].out = "panic"]
            /\ UNCHANGED <<bus, busLog>>
       ELSE /\ bus' = [bus EXCEPT !.ch = TrySend(bus, snd[t].ev)]
            /\ snd' = [snd EXCEPT ![t] =
                         [pc |-> "idle", ev |-> snd[t].ev,
                          out |-> IF bus'.ch # bus.ch THEN "enqueued"
                                                      ELSE "dropped",
                          room |-> Len(bus.ch) < bus.bufferSize,
                          open |-> ~bus.closed]]
            /\ busLog' = [busLog EXCEPT !.accepted =
                            IF bus'.ch # bus.ch THEN Append(@, snd[t].ev)
                                                ELSE @]
  /\ UNCHANGED restOfBus

\* The TUI receives an event from Events(); a closed channel still hands
\* out what it holds.
BusReceive ==
  /\ Len(bus.ch) > 0
  /\ bus' = [bus EXCEPT !.ch = Tail(@)]
  /\ busLog' = [busLog EXCEPT !.received = Append(@, Head(bus.ch))]
  /\ UNCHANGED <<snd, restOfBus>>

\* Close: "if !b.closed { b.closed = true"
BusCloseMark ==
  /\ ~bus.closed
  /\ bus' = [bus EXCEPT !.closed = TRUE]
  /\ UNCHANGED <<snd, busLog, restOfBus>>

\* ... "close(b.ch) }"
BusCloseChan ==
  /\ bus.closed
  /\ ~bus.chClosed
  /\ bus' = [bus EXCEPT !.chClosed = TRUE]
  /\ UNCHANGED <<snd, busLog, restOfBus>>

BusNext ==
  \/ \E t \in Threads : SendCall(t)
  \/ \E t \in Threads : SendSelect(t)
  \/ BusReceive
  \/ BusCloseMark
  \/ BusCloseChan

BusSpec == BusInit /\ [][BusNext]_vars

\* A Send of thread t has returned, with the outcome recorded in snd[t].
Sent(t) == snd[t].pc = "idle" /\ snd[t].out # ""

NotHandling ==
  [pc |-> "idle", n |-> 0, expired |-> FALSE, messages |-> << >>, i |-> 0,
   d |-> 0, aborted |-> {}, late |-> {}, sent |-> << >>]

EventsInit ==
  /\ cfg \in { c \in Configs : c.plugins # {} }
  /\ ev = [t \in Threads |-> NotHandling]
  /\ HandlerFields
  /\ BusIdle
  /\ BrokerIdle
  /\ PureIdle
  /\ AuxIdle
  /\ HostIdle

restOfEvents == <<cfg, sessions, events, pc, msg, userSessionID,
                  serverSessionID, messages, i, resp, j, routeTo,
                  targetTopics, d, shape, completions, request, lastAnswer,
                  reqSessionIDs, createCalls, executed, published, warnings,
                  hostVars, busVars, brokerVars, pureVars, auxVars>>

\* (mutant) the conversation is kept in a field of the handler, shared by
\* all events
LocalsOfShared(t) == "source"

\* The thread whose stack holds the messages Handle appends to: its own.
LocalsOf(t) == t

\* (mutant) one context for the whole handler: its expiry is seen by all
\* events
ExpiredAny(t) == \E u \in Threads : ev[u].expired

\* ctx of the event handled by t (context.WithTimeout, 60 s) is done.
Expired(t) == ev[t].expired

\* How a call that was given ctx ends: with the platform's or the tool
\* server's answer or error, or, once ctx is done, with the deadline error.
CtxOutcomes(t) == IF Expired(t) THEN {"deadline"} ELSE {"ok", "error"}

\* Manager.Publish takes no context: the script's publish function runs to
\* its own end.
PluginOutcomes(t) == {"ok", "error"}

\* The outcome out of a call of the given kind is noted in the locals.
Noted(e, kind, out) ==
  [e EXCEPT !.aborted = IF out = "deadline" THEN @ \cup {kind} ELSE @,
            !.late = IF e.expired /\ out # "deadline" THEN @ \cup {kind}
                     ELSE @]

AppendMessage(t, m) ==
  [ev EXCEPT ![LocalsOf(t)].messages = Append(@, m)]

\* Handle is called: ctx is created, the payload parsed; with memory and a
\* new session key the platform is asked for a session.
EvArrive(t) ==
  /\ ev[t].pc = "idle"
  /\ ev[t].n < MaxPerThread
  /\ \E create \in BOOLEAN :
       ev' = [AppendMessage(t, "user") EXCEPT
                ![t].pc = IF create /\ cfg.memory THEN "create"
                          ELSE "completing",
                ![t].n = @ + 1]
  /\ UNCHANGED restOfEvents

\* The deadline of the event passes.
EvExpire(t) ==
  /\ ev[t].pc \notin {"idle", "done"}
  /\ ~ev[t].expired
  /\ ev' = [ev EXCEPT ![t].expired = TRUE]
  /\ UNCHANGED restOfEvents

\* CreateSession(ctx, ...) returns; a failure is logged and Handle goes on.
EvCreateReturn(t) ==
  /\ ev[t].pc = "create"
  /\ \E out \in CtxOutcomes(t) :
       ev' = [ev EXCEPT ![t] = [Noted(@, "create", out) EXCEPT
                                  !.pc = "completing"]]
  /\ UNCHANGED restOfEvents

\* Complete(ctx, req) returns: an error ends Handle; an answer with tool
\* calls is appended and the calls are made; an answer without leaves the
\* loop.
EvCompleteReturn(t) ==
  /\ ev[t].pc = "completing"
  /\ \E out \in CtxOutcomes(t), tools \in BOOLEAN :
       /\ tools => out = "ok" /\ ev[t].i < MaxRounds
       /\ LET e == Noted(ev[t], "complete", out)
          IN  ev' = IF out # "ok"
                      THEN [ev EXCEPT ![t] = [e EXCEPT !.pc = "done"]]
                      ELSE IF tools
                        THEN [AppendMessage(t, "assistant") EXCEPT
                                ![t].pc = "tool",
                                ![t].aborted = e.aborted,
                                ![t].late = e.late]
                        ELSE [ev EXCEPT ![t] = [e EXCEPT !.pc = "dispatch",
                                                         !.d = 1]]
  /\ UNCHANGED restOfEvents

\* executeToolCall(ctx, call) returns: the result or the error payload is
\* appended and the next iteration starts.
EvToolReturn(t) ==
  /\ ev[t].pc = "tool"
  /\ \E out \in CtxOutcomes(t) :
       LET e == Noted(ev[t], "tool", out)
       IN  ev' = [AppendMessage(t, IF out = "ok" THEN "result" ELSE "error")
                    EXCEPT ![t].pc = IF LoopContinues(ev[t].i + 1)
                                       THEN "completing" ELSE "dispatch",
                           ![t].i = @ + 1,
                           ![t].d = IF LoopContinues(ev[t].i + 1) THEN 0 ELSE 1,
                           ![t].aborted = e.aborted,
                           ![t].late = e.late]
  /\ UNCHANGED restOfEvents

\* One destination of the default list: an adapter's publish, or the
\* platform's Publish(ctx, ...); the loop goes on whatever the outcome.
EvDispatch(t) ==
  /\ ev[t].pc = "dispatch"
  /\ LET topic == cfg.publish[ev[t].d]
         kind == IF IsPlugin(topic) THEN "plugin" ELSE "publish"
     IN  \E out \in IF IsPlugin(topic) THEN PluginOutcomes(t)
                                       ELSE CtxOutcomes(t) :
           ev' = [ev EXCEPT ![t] =
                    [Noted(@, kind, out) EXCEPT
                       !.sent = IF out = "ok" THEN Append(@, topic) ELSE @,
                       !.d = IF ev[t].d < Len(cfg.publish) THEN @ + 1 ELSE 0,
                       !.pc = IF ev[t].d < Len(cfg.publish) THEN "dispatch"
                              ELSE "reply"]]
  /\ UNCHANGED restOfEvents

\* The reply publish, Publish(ctx, msg.Reply, ...).
EvReply(t) ==
  /\ ev[t].pc = "reply"
  /\ \E out \in CtxOutcomes(t) :
       ev' = [ev EXCEPT ![t] =
                [Noted(@, "reply", out) EXCEPT
                   !.sent = IF out = "ok" THEN Append(@, "_INBOX.1") ELSE @,
                   !.pc = "done"]]
  /\ UNCHANGED restOfEvents

\* Handle returns; its locals are gone.
EvReturn(t) ==
  /\ ev[t].pc = "done"
  /\ ev' = [ev EXCEPT ![t] = [NotHandling EXCEPT !.n = ev[t].n]]
  /\ UNCHANGED restOfEvents

EventsNext ==
  \/ \E t \in Threads : EvArrive(t)
  \/ \E t \in Threads : EvExpire(t)
  \/ \E t \in Threads : EvCreateReturn(t)
  \/ \E t \in Threads : EvCompleteReturn(t)
  \/ \E t \in Threads : EvToolReturn(t)
  \/ \E t \in Threads : EvDispatch(t)
  \/ \E t \in Threads : EvReply(t)
  \/ \E t \in Threads : EvReturn(t)

EventsSpec == EventsInit /\ [][EventsNext]_vars

\* -------------------------------------------------------------------
\* Claims about events handled at the same time
\* -------------------------------------------------------------------

\* The conversation of the event handled by u holds what u's own Handle
\* appended: the user message, then per tool round the assistant's request
\* and the result of its call.
OwnContext(u) ==
  LET e == ev[u]
  IN  /\ Len(e.messages) = 1 + 2 * e.i + (IF e.pc = "tool" THEN 1 ELSE 0)
      /\ e.messages[1] = "user"
      /\ \A k \in 1..e.i :
           /\ e.messages[2 * k] = "assistant"
           /\ e.messages[2 * k + 1] \in {"result", "error"}

C23_Context ==
  \A u \in Threads :
    /\ ev[u].pc # "idle" => OwnContext(u)
    /\ ev[u].pc = "completing" => ENABLED EvCompleteReturn(u)
    /\ ev[u].pc = "tool" => ENABLED EvToolReturn(u)
    /\ ev[u].pc = "dispatch" => ENABLED EvDispatch(u)
    /\ ev[u].pc = "reply" => ENABLED EvReply(u)

\* A step changes the locals of one Handle only.
C23_Step ==
  \A t \in Threads, u \in Threads :
    t # u /\ ev'[t] # ev[t] => ev'[u] = ev[u]

C24_Original ==
  \A t \in Threads :
    /\ ev[t].late = {}
    /\ ev[t].aborted # {} => ev[t].expired

\* C24 (amended): one deadline per event; after its expiry the session
\* creation, the completions, the tool calls, the platform publishes and
\* the reply of that event end by the deadline, and only that event's
\* calls do; the dispatch to an adapter is not given the deadline and ends
\* on its own.
C24_DeadlineGovernsCtxCalls ==
  \A t \in Threads :
    /\ ev[t].late \subseteq {"plugin"}
    /\ ev[t].aborted # {} => ev[t].expired
    /\ ev[t].aborted \subseteq {"create", "complete", "tool", "publish",
                               "reply"}

\* The deadline of the source thread's event expired during the dispatch:
\* its platform publish and its reply were aborted and its adapter publish
\* went through, while the event of the platform thread, not expired, got
\* all its publishes out.
C24_Witness ==
  /\ ev["source"].expired
  /\ ev["source"].aborted = {"publish", "reply"}
  /\ ev["source"].late = {"plugin"}
  /\ ev["source"].sent = <<"sink">>
  /\ ~ev["platform"].expired
  /\ ev["platform"].sent = <<"out", "sink", "_INBOX.1">>

\* ===================================================================
\* internal/runner: MCPManager, the tool broker
\* ===================================================================

\* Tool servers and the tools each one lists (session.Tools), in the order
\* it lists them.  "shell" is a server name used with RegisterTool only:
\* it never has a session.
Servers == {"s1", "s2"}
ServerNames == Servers \cup {"shell"}
BrokerTools == {"search", "fetch", "absent"}
Tool(name, server) == [name |-> name, description |-> <<server, name>>]
ServerTools(srv) ==
  IF srv = "s1" THEN << Tool("search", "s1"), Tool("fetch", "s1") >>
                ELSE << Tool("search", "s2") >>
ManualTools == { Tool("fetch", "shell"), Tool("search", "shell") }

\* Argument payloads of a call: none, a JSON object, not JSON.
ToolArgs == {"", "{}", "not json"}
ArgumentsParse(args) == args # "not json"

\* ended and failed are not fields of the manager: they are the servers
\* whose session had Close called on it, and those of them whose Close
\* returned an error, since the server was last connected.
NewMCPManager ==
  [sessions |-> {}, tools |-> EmptyObj, toolSrc |-> EmptyObj,
   toolExecutor |-> FALSE, ended |-> {}, failed |-> {}]

\* (mutant) a name already registered keeps its first definition
RegisterKeepsFirst(m, serverName, tool) ==
  IF tool.name \in DOMAIN m.tools THEN m
  ELSE [m EXCEPT !.tools = Put(@, tool.name, tool),
                 !.toolSrc = Put(@, tool.name, serverName)]

\* RegisterTool, and the body of discoverTools' loop: under m.mu, the
\* definition and the origin of the name are (re)placed together.
RegisterTool(m, serverName, tool) ==
  [m EXCEPT !.tools = Put(@, tool.name, tool),
            !.toolSrc = Put(@, tool.name, serverName)]

RECURSIVE RegisterAll(_, _, _, _)
RegisterAll(m, serverName, list, k) ==
  IF k = 0 THEN m
  ELSE RegisterTool(RegisterAll(m, serverName, list, k - 1), serverName,
                    list[k])

\* GetAthyrTools: the definitions in m.tools, in the order Go ranges over
\* the map: any order.
GetAthyrTools(m) ==
  LET names == DOMAIN m.tools
      n == Cardinality(names)
  IN  { [k \in 1..n |-> m.tools[o[k]]] :
          o \in { f \in [1..n -> names] :
                    \A a \in 1..n, b \in 1..n : a # b => f[a] # f[b] } }

\* (mutant) a name that is not registered is tried on every server
MCPCallToolTriesServers(m, name, args) ==
  IF name \notin DOMAIN m.toolSrc /\ m.sessions = {}
    THEN {[err |-> "unknown tool", called |-> "none"]}
    ELSE IF name \notin DOMAIN m.toolSrc
      THEN { [err |-> "tool call failed", called |-> s] : s \in m.sessions }
      ELSE { [err |-> e, called |-> m.toolSrc[name]] :
               e \in {"", "tool call failed"} }

\* MCPManager.CallTool: the possible results, with the server (or the test
\* executor) the call was handed to.
MCPCallTool(m, name, args) ==
  IF name \notin DOMAIN m.toolSrc
    THEN {[err |-> "unknown tool", called |-> "none"]}
    ELSE IF m.toolExecutor
      THEN { [err |-> e, called |-> "executor"] : e \in {"", "failed"} }
      ELSE IF m.toolSrc[name] \notin m.sessions
        THEN {[err |-> "no session for server", called |-> "none"]}
        ELSE IF ~ArgumentsParse(args)
          THEN {[err |-> "invalid arguments", called |-> "none"]}
          ELSE { [err |-> e, called |-> m.toolSrc[name]] :
                   e \in {"", "tool call failed"} }

BrokerInit ==
  /\ mgr = NewMCPManager
  /\ regs = << >>
  /\ callRet = Nil
  /\ cfg = Nil
  /\ HandlerFields
  /\ BusIdle
  /\ EventsIdle
  /\ PureIdle
  /\ AuxIdle
  /\ HostIdle

restOfBroker == <<cfg, sessions, events, pc, msg, userSessionID,
                  serverSessionID, messages, i, resp, j, routeTo,
                  targetTopics, d, shape, completions, request, lastAnswer,
                  reqSessionIDs, createCalls, executed, published, warnings,
                  hostVars, busVars, ev, pureVars, auxVars>>

Registration(serverName, tool) == [server |-> serverName, tool |-> tool]

\* connectServer: the session is stored, then discoverTools registers the
\* tools the server lists, all of them or, when the listing fails, the
\* ones listed before the failure.
ConnectServer ==
  /\ callRet = Nil
  /\ \E srv \in Servers, k \in 0..MaxRegs :
       /\ k <= Len(ServerTools(srv))
       /\ Len(regs) + k <= MaxRegs
       /\ mgr' = RegisterAll([mgr EXCEPT !.sessions = @ \cup {srv},
                                         !.ended = @ \ {srv},
                                         !.failed = @ \ {srv}], srv,
                             ServerTools(srv), k)
       /\ regs' = regs \o [x \in 1..k |->
                             Registration(srv, ServerTools(srv)[x])]
  /\ UNCHANGED <<callRet, restOfBroker>>

\* RegisterTool is called by hand.
RegisterToolCall ==
  /\ callRet = Nil
  /\ Len(regs) < MaxRegs
  /\ \E tool \in ManualTools :
       /\ mgr' = RegisterTool(mgr, "shell", tool)
       /\ regs' = Append(regs, Registration("shell", tool))
  /\ UNCHANGED <<callRet, restOfBroker>>

\* SetToolExecutor
SetToolExecutor ==
  /\ callRet = Nil
  /\ ~mgr.toolExecutor
  /\ mgr' = [mgr EXCEPT !.toolExecutor = TRUE]
  /\ UNCHANGED <<regs, callRet, restOfBroker>>

\* CallTool is called (the last step of a behaviour: what it returned is
\* compared with the registrations made before it).
CallToolCall ==
  /\ callRet = Nil
  /\ \E name \in BrokerTools, args \in ToolArgs :
       \E r \in MCPCallTool(mgr, name, args) :
         callRet' = [name |-> name, args |-> args, err |-> r.err,
                     called |-> r.called, regs |-> Len(regs),
                     executor |-> mgr.toolExecutor,
                     sessions |-> mgr.sessions]
  /\ UNCHANGED <<mgr, regs, restOfBroker>>

\* (mutant) the loop of Close returns at the first session that fails to
\* close
SessionsClosedUntilFailure(open, failing) ==
  IF failing = {} THEN open ELSE failing

\* The sessions Close calls session.Close() on: the loop logs an error and
\* goes on (handler.go:923-927).
SessionsClosed(open, failing) == open

\* MCPManager.Close, with the sessions whose Close returns an error: the
\* session map is replaced by an empty one; the tools stay registered.
MCPClose(m, failing) ==
  [m EXCEPT !.sessions = {},
            !.ended = @ \cup SessionsClosed(m.sessions, failing),
            !.failed = (@ \ m.sessions) \cup failing]

BrokerClose ==
  /\ callRet = Nil
  /\ mgr.sessions # {}
  /\ \E failing \in SUBSET mgr.sessions : mgr' = MCPClose(mgr, failing)
  /\ UNCHANGED <<regs, callRet, restOfBroker>>

BrokerNext ==
  \/ ConnectServer
  \/ RegisterToolCall
  \/ SetToolExecutor
  \/ CallToolCall
  \/ BrokerClose

BrokerSpec == BrokerInit /\ [][BrokerNext]_vars

\* -------------------------------------------------------------------
\* Claims about the tool broker
\* -------------------------------------------------------------------

\* Among the first n registrations: is there one of name, and which is the
\* last one.
HasReg(name, n) == \E k \in 1..n : regs[k].tool.name = name
LastReg(name, n) ==
  regs[CHOOSE k \in 1..n :
         /\ regs[k].tool.name = name
         /\ \A l \in (k + 1)..n : regs[l].tool.name # name]

\* C25 as stated: an unregistered name gives the unknown-tool error and
\* nobody is called; a registered name is always handed to the server
\* that registered it last.
C25_Original ==
  callRet # Nil =>
    IF ~HasReg(callRet.name, callRet.regs)
      THEN callRet.err = "unknown tool" /\ callRet.called = "none"
      ELSE callRet.called = LastReg(callRet.name, callRet.regs).server

\* C25 (amended): an unregistered name gives the unknown-tool error and
\* neither a server nor the executor is called; a registered name is
\* handed to the test executor when one is set, and otherwise to the
\* server that registered it last, unless that server has no open session
\* or the arguments do not parse: then the call fails and nobody is called.
C25_UnknownToolOrOrigin ==
  callRet # Nil =>
    IF ~HasReg(callRet.name, callRet.regs)
      THEN callRet.err = "unknown tool" /\ callRet.called = "none"
      ELSE LET origin == LastReg(callRet.name, callRet.regs).server
               blocked == \/ origin \notin callRet.sessions
                          \/ ~ArgumentsParse(callRet.args)
           IN  /\ callRet.err # "unknown tool"
               /\ callRet.called =
                    IF callRet.executor THEN "executor"
                    ELSE IF blocked THEN "none" ELSE origin
               /\ callRet.called = "none" => callRet.err # ""

\* A name no server registered is called while two servers are connected
\* and have registered tools: unknown tool, nobody called.
C25_Witness ==
  /\ callRet # Nil
  /\ callRet.name = "absent"
  /\ callRet.err = "unknown tool"
  /\ callRet.called = "none"
  /\ callRet.sessions = Servers
  /\ Len(regs) > 0

\* C26: every registered name maps to the definition and the origin of its
\* most recent registration; the tool list has each name exactly once, with
\* that definition; a call handed to a server is handed to the latest one.
C26_LastRegistrationWins ==
  /\ DOMAIN mgr.tools = { regs[k].tool.name : k \in 1..Len(regs) }
  /\ DOMAIN mgr.toolSrc = DOMAIN mgr.tools
  /\ \A name \in DOMAIN mgr.tools :
       /\ mgr.tools[name] = LastReg(name, Len(regs)).tool
       /\ mgr.toolSrc[name] = LastReg(name, Len(regs)).server
       /\ \A l \in GetAthyrTools(mgr) :
            /\ Cardinality({ k \in 1..Len(l) : l[k].name = name }) = 1
            /\ \A k \in 1..Len(l) :
                 l[k].name = name => l[k] = LastReg(name, Len(regs)).tool
  /\ callRet # Nil /\ callRet.called \in ServerNames =>
       callRet.called = LastReg(callRet.name, callRet.regs).server

\* "search" was registered by s1 and then by s2, next to s1's "fetch"; the
\* call of "search" went to s2.
C26_Witness ==
  /\ Len(regs) = 3
  /\ regs[1] = Registration("s1", Tool("search", "s1"))
  /\ regs[3] = Registration("s2", Tool("search", "s2"))
  /\ mgr.tools["search"] = Tool("search", "s2")
  /\ callRet # Nil
  /\ callRet.name = "search"
  /\ callRet.called = "s2"

\* -------------------------------------------------------------------
\* The structured-data codec of the bridge: json.decode, json.encode
\* -------------------------------------------------------------------

MaxElems == 2

\* A JSON text, by what it denotes.
JBool(b) == [jbool |-> b]
JNum(n) == [jnum |-> n]
JStr(s) == [jstr |-> s]
JArr(items) == [jarr |-> items]
JObj(fields) == [jobj |-> fields]

\* The values of encoding/json: bool, float64, string, []any,
\* map[string]any.
GoBool(b) == [gobool |-> b]
GoFloat64(n) == [float64 |-> n]
GoString(s) == [gostring |-> s]
GoSlice(items) == [slice |-> items]
GoMap(fields) == [gomap |-> fields]

\* The values of the interpreter: LBool, LNumber, LString and LTable, one
\* table type with an array part and string keys.
LBool(b) == [lbool |-> b]
LNumber(n) == [lnumber |-> n]
LString(s) == [lstring |-> s]
LTable(array, strdict) == [ltable |-> [array |-> array, strdict |-> strdict]]

Is(kind, v) == kind \in DOMAIN v

\* json.Unmarshal into an any
RECURSIVE Unmarshal(_)
Unmarshal(x) ==
  IF Is("jbool", x) THEN GoBool(x.jbool)
  ELSE IF Is("jnum", x) THEN GoFloat64(x.jnum)
  ELSE IF Is("jstr", x) THEN GoString(x.jstr)
  ELSE IF Is("jarr", x)
    THEN GoSlice([k \in 1..Len(x.jarr) |-> Unmarshal(x.jarr[k])])
  ELSE GoMap([k \in DOMAIN x.jobj |-> Unmarshal(x.jobj[k])])

\* goValueToLua: a slice is appended item by item to a new table, a map is
\* set field by field on a new table.
RECURSIVE goValueToLua(_)
goValueToLua(val) ==
  IF Is("gobool", val) THEN LBool(val.gobool)
  ELSE IF Is("float64", val) THEN LNumber(val.float64)
  ELSE IF Is("gostring", val) THEN LString(val.gostring)
  ELSE IF Is("slice", val)
    THEN LTable([k \in 1..Len(val.slice) |-> goValueToLua(val.slice[k])],
                EmptyObj)
  ELSE LTable(<< >>,
              [k \in DOMAIN val.gomap |-> goValueToLua(val.gomap[k])])

\* luaValueToGo: a table with MaxN() > 0 is an array; any other table is a
\* map of its string keys.
RECURSIVE luaValueToGo(_)
luaValueToGo(val) ==
  IF Is("lbool", val) THEN GoBool(val.lbool)
  ELSE IF Is("lnumber", val) THEN GoFloat64(val.lnumber)
  ELSE IF Is("lstring", val) THEN GoString(val.lstring)
  ELSE IF Len(val.ltable.array) > 0
    THEN GoSlice([k \in 1..Len(val.ltable.array) |->
                    luaValueToGo(val.ltable.array[k])])
  ELSE GoMap([k \in DOMAIN val.ltable.strdict |->
                luaValueToGo(val.ltable.strdict[k])])

\* json.Marshal of what luaValueToGo returns
RECURSIVE Marshal(_)
Marshal(v) ==
  IF Is("gobool", v) THEN JBool(v.gobool)
  ELSE IF Is("float64", v) THEN JNum(v.float64)
  ELSE IF Is("gostring", v) THEN JStr(v.gostring)
  ELSE IF Is("slice", v)
    THEN JArr([k \in 1..Len(v.slice) |-> Marshal(v.slice[k])])
  ELSE JObj([k \in DOMAIN v.gomap |-> Marshal(v.gomap[k])])

\* json.decode and json.encode, when not restricted
decode(str) == goValueToLua(Unmarshal(str))
encode(val) == Marshal(luaValueToGo(val))

\* The texts decoded: scalars, arrays and objects of scalars, arrays and
\* objects of those, and one more level around them.
Keys == {"k", "1"}
Scalars == {JBool(TRUE), JNum(1), JStr("a")}
ArraysOf(S) == UNION { [1..n -> S] : n \in 0..MaxElems }
ObjectsOf(S) == UNION { [K -> S] : K \in SUBSET Keys }
Level1 ==
  Scalars \cup { JArr(a) : a \in ArraysOf(Scalars) }
          \cup { JObj(o) : o \in ObjectsOf(Scalars) }
Nested ==
  {JBool(TRUE), JArr(<< >>), JObj(EmptyObj), JArr(<<JNum(1)>>),
   JObj([k \in {"k"} |-> JStr("a")])}
Level2 ==
  { JArr(a) : a \in ArraysOf(Nested) } \cup
  { JObj(o) : o \in ObjectsOf(Nested) }
Level3 ==
  { JArr(<<x>>) : x \in Level2 } \cup
  { JObj([k \in {"k"} |-> x]) : x \in Level2 }
Texts == Level1 \cup Level2 \cup Level3

restOfPure == <<cfg, sessions, events, pc, msg, userSessionID,
                serverSessionID, messages, i, resp, j, routeTo,
                targetTopics, d, shape, completions, request, lastAnswer,
                reqSessionIDs, createCalls, executed, published, warnings,
                hostVars, busVars, ev, brokerVars, auxVars>>

CodecInit ==
  /\ codec \in { [text |-> x] : x \in Texts }
  /\ parsed = Nil
  /\ cfg = Nil
  /\ HandlerFields
  /\ BusIdle
  /\ EventsIdle
  /\ BrokerIdle
  /\ AuxIdle
  /\ HostIdle

\* The script calls json.decode(text).
CodecDecode ==
  /\ DOMAIN codec = {"text"}
  /\ codec' = [text |-> codec.text, lua |-> decode(codec.text)]
  /\ UNCHANGED <<restOfPure, parsed>>

\* The script calls json.encode on the decoded value.
CodecEncode ==
  /\ DOMAIN codec = {"text", "lua"}
  /\ codec' = [text |-> codec.text, lua |-> codec.lua,
               out |-> encode(codec.lua)]
  /\ UNCHANGED <<restOfPure, parsed>>

CodecNext ==
  \/ CodecDecode
  \/ CodecEncode

CodecSpec == CodecInit /\ [][CodecNext]_vars

\* C27: for every text built from booleans, numbers, strings, arrays
\* (also empty ones) and string-keyed maps, json.encode(json.decode(text))
\* denotes the same value as text.
C27_RoundTrip ==
  codec # Nil /\ "out" \in DOMAIN codec => codec.out = codec.text

\* {"k": []} was decoded and encoded again: the text is now {"k": {}}.
C27_Witness ==
  /\ codec # Nil
  /\ "out" \in DOMAIN codec
  /\ codec.text = JObj([k \in {"k"} |-> JArr(<< >>)])
  /\ codec.out = JObj([k \in {"k"} |-> JObj(EmptyObj)])

\* -------------------------------------------------------------------
\* The system prompt of an agent without instructions
\* -------------------------------------------------------------------

\* Validate accepts routes without instructions: agent.instructions is
\* optional. The other fields are those of the first of Configs.
PromptConfigs ==
  { [memory |-> TRUE, mcp |-> TRUE, instructions |-> FALSE,
     publish |-> <<"out", "sink">>, routes |-> <<"billing", "sink">>,
     plugins |-> {"sink"}] }

PromptInit ==
  /\ cfg \in PromptConfigs
  /\ HandlerConstructed
  /\ HostIdle

PromptSpec == PromptInit /\ [][Next]_vars

\* The message is a system message whose text has the routing heading and
\* the line of every configured route.
HasRoutingBlock(m) ==
  /\ m.role = "system"
  /\ \E l \in 1..Len(m.content.text) :
       m.content.text[l] = <<"## Routing Instructions">>
  /\ \A k \in 1..Len(cfg.routes) :
       \E l \in 1..Len(m.content.text) :
         m.content.text[l] = RouteLine(cfg.routes[k])

\* C28: with routes configured, every completion request of an event has
\* a system message with the routing block naming every route; without
\* routes no message of a request has a routing block.
C28_RoutingBlockInEveryRequest ==
  request # Nil =>
    LET withBlock == { k \in 1..Len(request.messages) :
                         HasRoutingBlock(request.messages[k]) }
    IN  IF HasRoutes THEN withBlock # {} ELSE withBlock = {}

\* Routes are configured, the event's second completion request is in
\* flight, and it has no system message at all.
C28_Witness ==
  /\ request # Nil
  /\ HasRoutes
  /\ completions = 2
  /\ \A k \in 1..Len(request.messages) :
       request.messages[k].role # "system"

\* -------------------------------------------------------------------
\* parseMessage on its own
\* -------------------------------------------------------------------

\* Payloads json.Unmarshal does not fill an IncomingMessage from: plain
\* text, a truncated object, an array, an object whose session_id or
\* content is not a string (Unmarshal returns an error), and null
\* (Unmarshal returns no error and sets nothing).
OtherPayloads ==
  { [raw |-> "hello", kind |-> "text", obj |-> EmptyObj],
    [raw |-> "", kind |-> "text", obj |-> EmptyObj],
    [raw |-> "{\"content\":\"hi\"", kind |-> "malformed", obj |-> EmptyObj],
    [raw |-> "[\"hi\"]", kind |-> "array", obj |-> EmptyObj],
    [raw |-> "{\"content\":42}", kind |-> "mistyped", obj |-> EmptyObj],
    [raw |-> "{\"session_id\":7,\"content\":\"hi\"}", kind |-> "mistyped",
     obj |-> EmptyObj],
    [raw |-> "null", kind |-> "null", obj |-> EmptyObj] }

\* JSON objects with string values: any of the keys, each one with an empty
\* or a non-empty value.
ObjectKeys == {"session_id", "content", "session", "trace"}
FieldValues == {"", "a", "b"}
Objects == UNION { [K -> FieldValues] : K \in SUBSET ObjectKeys }

\* The bytes of an object: the text of its fields, in the order of
\* ObjectKeys.
FieldText(o, key) ==
  IF key \in DOMAIN o THEN "\"" \o key \o "\":\"" \o o[key] \o "\"," ELSE ""
RawOf(o) ==
  "{" \o FieldText(o, "session_id") \o FieldText(o, "content")
      \o FieldText(o, "session") \o FieldText(o, "trace") \o "}"

ParsePayloads ==
  OtherPayloads \cup { [raw |-> RawOf(o), kind |-> "object", obj |-> o] :
                         o \in Objects }

ParseInit ==
  /\ parsed \in { [data |-> p] : p \in ParsePayloads }
  /\ codec = Nil
  /\ cfg = Nil
  /\ HandlerFields
  /\ BusIdle
  /\ EventsIdle
  /\ BrokerIdle
  /\ AuxIdle
  /\ HostIdle

\* parseMessage(msg.Data)
ParseMessage ==
  /\ DOMAIN parsed = {"data"}
  /\ parsed' = [data |-> parsed.data, out |-> parseMessage(parsed.data)]
  /\ UNCHANGED <<restOfPure, codec>>

ParseNext == ParseMessage

ParseSpec == ParseInit /\ [][ParseNext]_vars

\* C29: parseMessage answers every payload: an object with a non-empty
\* content gives that content and its session_id ("" when it has none);
\* every other payload (text, malformed, not an object, mistyped, content
\* missing or empty) gives the whole payload as the text and no session
\* key.
C29_ParseIsTotal ==
  parsed # Nil =>
    IF "out" \notin DOMAIN parsed
      THEN ENABLED ParseMessage
      ELSE LET data == parsed.data
               out == parsed.out
               structured == /\ data.kind = "object"
                             /\ "content" \in DOMAIN data.obj
                             /\ data.obj["content"] # ""
           IN  /\ DOMAIN out = {"sessionID", "content"}
               /\ out.content \in STRING
               /\ out.sessionID \in STRING
               /\ structured =>
                    /\ out.content = data.obj["content"]
                    /\ out.sessionID = IF "session_id" \in DOMAIN data.obj
                                         THEN data.obj["session_id"]
                                         ELSE ""
               /\ ~structured =>
                    /\ out.content = data.raw
                    /\ out.sessionID = ""

\* An object with a session_id and an empty content was parsed: the text
\* is the whole payload and the session key is dropped.
C29_Witness ==
  /\ parsed # Nil
  /\ "out" \in DOMAIN parsed
  /\ parsed.data.kind = "object"
  /\ "session_id" \in DOMAIN parsed.data.obj
  /\ parsed.data.obj["session_id"] = "a"
  /\ "content" \in DOMAIN parsed.data.obj
  /\ parsed.data.obj["content"] = ""
  /\ parsed.out = [sessionID |-> "", content |-> parsed.data.raw]

\* -------------------------------------------------------------------
\* Session memory on completion requests
\* -------------------------------------------------------------------

\* The payload of the event in hand supplied a session_id.
SessionSupplied == parseMessage(msg.data).sessionID # ""

\* C30: a completion request carries a session identifier and the
\* include-memory flag exactly when memory is enabled, the payload
\* supplied a session_id and the session was resolved (the identifier is
\* then the one mapped to the key); with memory disabled or without a
\* session_id every request of the event has no identifier and no flag,
\* and the event creates no platform session.
C30_SessionOnlyWithMemory ==
  /\ request # Nil =>
       /\ request.includeMemory <=> request.sessionID # 0
       /\ request.sessionID # 0 <=>
            /\ cfg.memory
            /\ SessionSupplied
            /\ HasSession(userSessionID)
       /\ request.sessionID # 0 =>
            request.sessionID = sessions[userSessionID]
  /\ msg # Nil /\ (~cfg.memory \/ ~SessionSupplied) =>
       /\ reqSessionIDs \subseteq {0}
       /\ CreatedHere = {}
       /\ pc # "createSession"
       /\ request # Nil => ~request.includeMemory

\* Memory is enabled and the payload gave a session_id that was resolved:
\* the event's second completion request carries the platform's session
\* identifier and the flag.
C30_Witness ==
  /\ request # Nil
  /\ cfg.memory
  /\ SessionSupplied
  /\ completions = 2
  /\ request.sessionID # 0
  /\ request.sessionID = sessions[userSessionID]
  /\ request.includeMemory

\* -------------------------------------------------------------------
\* The tool loop: requests, rounds and the conversation
\* -------------------------------------------------------------------

\* The completions of this event that asked for tools so far: each one
\* left one assistant message in the conversation.
ToolRounds ==
  Cardinality({ k \in 1..Len(messages) : messages[k].role = "assistant" })

Min(a, b) == IF a < b THEN a ELSE b

\* The loop was left: the last answer had no tool call, the bound was
\* reached, or a completion failed.
LoopLeft == pc = "route" \/ (pc = "done" /\ resp = Nil)

C31_Count ==
  /\ LoopLeft =>
       /\ completions = Min(maxToolIterations, ToolRounds + 1)
       /\ ToolRounds = 0 => completions = 1 /\ executed = << >>
  /\ pc = "completing" => completions = ToolRounds + 1
  /\ pc = "tool" => completions = ToolRounds

C31_Step ==
  pc \in {"route", "dispatch", "reply"} => completions' = completions

\* C31: an event issues min(10, k+1) completion requests, k being the
\* number of leading completions that asked for at least one tool; a
\* first completion without tool calls ends the loop after one request
\* with no tool executed; nothing after the loop issues a request.
C31_RequestsPerEvent == []C31_Count /\ [][C31_Step]_vars

\* The first completion of an event asked for no tool: one request, no
\* tool executed, the loop is left.
C31_Witness ==
  /\ pc = "route"
  /\ resp # Nil
  /\ Len(resp.toolCalls) = 0
  /\ ToolRounds = 0
  /\ completions = 1
  /\ executed = << >>

\* The number of tool rounds msgs consists of from position p on, each one
\* an assistant tool request followed by one result per requested call
\* with the call's id; -1 when msgs is not made of such rounds.
RECURSIVE RoundsFrom(_, _)
RoundsFrom(msgs, p) ==
  IF p > Len(msgs) THEN 0
  ELSE IF msgs[p].role # "assistant" THEN -1
  ELSE LET n == Len(msgs[p].toolCalls)
       IN  IF n = 0 \/ p + n > Len(msgs) THEN -1
           ELSE IF \E k \in 1..n :
                     \/ msgs[p + k].role # "tool"
                     \/ msgs[p + k].toolCallID # msgs[p].toolCalls[k].id
                  THEN -1
           ELSE LET rest == RoundsFrom(msgs, p + n + 1)
                IN  IF rest = -1 THEN -1 ELSE rest + 1

\* What Handle builds for the event in hand before the loop.
FreshContext == InitialMessages(parseMessage(msg.data).content)

C32_Context ==
  request # Nil =>
    /\ Len(request.messages) >= Len(FreshContext)
    /\ SubSeq(request.messages, 1, Len(FreshContext)) = FreshContext
    /\ RoundsFrom(request.messages, Len(FreshContext) + 1) = completions - 1

C32_Step ==
  pc \in {"complete", "completing", "tool"} /\ pc' # "idle" =>
    \/ messages' = messages
    \/ /\ Len(messages') = Len(messages) + 1
       /\ SubSeq(messages', 1, Len(messages)) = messages

\* C32: the messages of the n-th completion request of an event are the
\* messages built for that event followed by n-1 tool rounds, each one
\* assistant request and one result per requested call with matching ids:
\* nothing else is in it, and while the loop runs a step only appends one
\* message to the conversation.
C32_ContextIsAppendOnly == []C32_Context /\ [][C32_Step]_vars

\* The second event's third request: its own payload first, then two
\* rounds of two calls each.
C32_Witness ==
  /\ request # Nil
  /\ events = 2
  /\ completions = 3
  /\ Len(request.messages) = Len(FreshContext) + 6
  /\ RoundsFrom(request.messages, Len(FreshContext) + 1) = 2

\* -------------------------------------------------------------------
\* One Handle call seen from outside: the events it emits, the requests,
\* tool executions and publishes it makes, in the order it makes them
\* -------------------------------------------------------------------

\* An entry of the trace: emitEvent(...) or a call that leaves the handler.
Emitted(event, call, topic) ==
  [what |-> "emit", event |-> event, call |-> call, topic |-> topic,
   ok |-> TRUE]
Did(what, call, topic, ok) ==
  [what |-> what, event |-> "", call |-> call, topic |-> topic, ok |-> ok]

\* Handle, lines 225-257: the status of the event emitted after a call.
FinishEvent(r) == IF r.err # "" THEN "failed" ELSE "completed"

\* (mutant) the outgoing event is emitted whatever the publish returned
OutgoingEventsAlways(topic, ok) == << Emitted("outgoing", 0, topic) >>

\* Handle, lines 326-347: what is emitted after the publish to topic.
OutgoingEvents(topic, ok) ==
  IF ok THEN << Emitted("outgoing", 0, topic) >> ELSE << >>

\* (mutant) a failed completion leaves the loop and the response is
\* dispatched
AfterFailedCompletionDispatch == "dispatch"

\* Handle, lines 176-184: "return" on a completion error.
AfterFailedCompletion == "done"

NotObserved ==
  [pc |-> "idle", n |-> 0, reply |-> "", calls |-> << >>, k |-> 0,
   rounds |-> 0, dest |-> 0, failed |-> FALSE, log |-> << >>]

ObserveInit ==
  /\ cfg \in Configs
  /\ obs = NotObserved
  /\ watch = Nil
  /\ HandlerFields
  /\ BusIdle
  /\ EventsIdle
  /\ BrokerIdle
  /\ PureIdle
  /\ HostIdle

restOfObserve == <<cfg, sessions, events, pc, msg, userSessionID,
                   serverSessionID, messages, i, resp, j, routeTo,
                   targetTopics, d, shape, completions, request, lastAnswer,
                   reqSessionIDs, createCalls, executed, published, warnings,
                   hostVars, busVars, ev, brokerVars, pureVars, watch>>

\* A message arrives: the incoming event is emitted, the conversation is
\* built.
ObsArrive ==
  /\ obs.pc = "idle"
  /\ obs.n < MaxEvents
  /\ \E reply \in ReplySubjects :
       obs' = [NotObserved EXCEPT
                 !.pc = "complete", !.n = obs.n + 1, !.reply = reply,
                 !.log = << Emitted("incoming", 0, "input") >>]
  /\ UNCHANGED restOfObserve

\* h.agent.Complete is called.
ObsRequest ==
  /\ obs.pc = "complete"
  /\ obs' = [obs EXCEPT !.pc = "completing",
                        !.log = Append(@, Did("request", 0, "", TRUE))]
  /\ UNCHANGED restOfObserve

\* The completion fails.
ObsCompleteFails ==
  /\ obs.pc = "completing"
  /\ obs' = [obs EXCEPT !.pc = AfterFailedCompletion, !.failed = TRUE,
                        !.dest = IF AfterFailedCompletion = "dispatch"
                                   THEN 1 ELSE 0]
  /\ UNCHANGED restOfObserve

\* The completion is answered, with tool calls (the assistant message is
\* appended) or without (break).
ObsComplete ==
  /\ obs.pc = "completing"
  /\ \/ obs' = [obs EXCEPT !.pc = "dispatch", !.dest = 1]
     \/ /\ obs.rounds < MaxRounds
        /\ \E names \in Shapes :
             obs' = [obs EXCEPT !.pc = "toolStart", !.k = 1,
                                !.calls = ToolCalls(names, obs.rounds)]
  /\ UNCHANGED restOfObserve

\* The started event of call k is emitted.
ObsToolStart ==
  /\ obs.pc = "toolStart"
  /\ obs' = [obs EXCEPT
               !.pc = "toolExec",
               !.log = Append(@, Emitted("started", obs.calls[obs.k].id, ""))]
  /\ UNCHANGED restOfObserve

\* executeToolCall, the completed or failed event, the result message; then
\* the next call, or the next iteration.
ObsToolExec ==
  /\ obs.pc = "toolExec"
  /\ LET call == obs.calls[obs.k]
         r == executeToolCall(call)
         last == obs.k = Len(obs.calls)
     IN  obs' = [obs EXCEPT
                   !.pc = IF last THEN "complete" ELSE "toolStart",
                   !.k = IF last THEN 0 ELSE obs.k + 1,
                   !.rounds = IF last THEN obs.rounds + 1 ELSE obs.rounds,
                   !.calls = IF last THEN << >> ELSE obs.calls,
                   !.log = @ \o << Did("exec", call.id, "", r.err = ""),
                                   Emitted(FinishEvent(r), call.id, "") >>]
  /\ UNCHANGED restOfObserve

\* One destination is published to, through the adapter or the platform;
\* on success the outgoing event is emitted.
ObsPublish ==
  /\ obs.pc = "dispatch"
  /\ \E ok \in BOOLEAN :
       LET topic == cfg.publish[obs.dest]
           last == obs.dest = Len(cfg.publish)
       IN  obs' = [obs EXCEPT
                     !.pc = IF ~last THEN "dispatch"
                            ELSE IF obs.reply # "" THEN "reply" ELSE "done",
                     !.dest = IF last THEN 0 ELSE obs.dest + 1,
                     !.log = @ \o << Did("publish", 0, topic, ok) >>
                               \o OutgoingEvents(topic, ok)]
  /\ UNCHANGED restOfObserve

\* The reply subject is published to; no event is emitted for it.
ObsReply ==
  /\ obs.pc = "reply"
  /\ \E ok \in BOOLEAN :
       obs' = [obs EXCEPT !.pc = "done",
                          !.log = Append(@, Did("reply", 0, obs.reply, ok))]
  /\ UNCHANGED restOfObserve

\* Handle returns.
ObsReturn ==
  /\ obs.pc = "done"
  /\ obs' = [NotObserved EXCEPT !.n = obs.n]
  /\ UNCHANGED restOfObserve

ObserveNext ==
  \/ ObsArrive
  \/ ObsRequest
  \/ ObsCompleteFails
  \/ ObsComplete
  \/ ObsToolStart
  \/ ObsToolExec
  \/ ObsPublish
  \/ ObsReply
  \/ ObsReturn

ObserveSpec == ObserveInit /\ [][ObserveNext]_vars

IsEmit(e, event) == e.what = "emit" /\ e.event = event
IsFinish(e) == e.what = "emit" /\ e.event \in {"completed", "failed"}

\* C33: in the trace of one event the incoming event comes first, before
\* any request; a tool's execution is preceded by its started event and
\* followed by one completed (failed, when it failed) event of the same
\* call, and nothing comes between them; an outgoing event directly follows
\* a successful publish to its topic.
C33_EventsInOrder ==
  obs # Nil =>
    LET L == obs.log
    IN  /\ L # << >> => IsEmit(L[1], "incoming")
        /\ \A p \in 1..Len(L) :
             /\ p > 1 => ~IsEmit(L[p], "incoming")
             /\ IsEmit(L[p], "started") =>
                  /\ p + 1 <= Len(L) =>
                       L[p + 1].what = "exec" /\ L[p + 1].call = L[p].call
                  /\ p = Len(L) => obs.pc = "toolExec"
             /\ L[p].what = "exec" =>
                  /\ p > 1
                  /\ IsEmit(L[p - 1], "started")
                  /\ L[p - 1].call = L[p].call
                  /\ p + 1 <= Len(L)
                  /\ L[p + 1] =
                       Emitted(IF L[p].ok THEN "completed" ELSE "failed",
                               L[p].call, "")
             /\ IsFinish(L[p]) =>
                  /\ p > 1
                  /\ L[p - 1].what = "exec"
                  /\ L[p - 1].call = L[p].call
             /\ IsEmit(L[p], "outgoing") =>
                  /\ p > 1
                  /\ L[p - 1] = Did("publish", 0, L[p].topic, TRUE)

\* Two tools ran, the first completed and the second failed, and of two
\* destinations the first publish failed and the second succeeded: one
\* outgoing event.
C33_Witness ==
  /\ obs # Nil
  /\ obs.pc = "done"
  /\ \E p, q \in 1..Len(obs.log) :
       /\ p < q
       /\ IsEmit(obs.log[p], "completed")
       /\ IsEmit(obs.log[q], "failed")
  /\ \E p \in 1..Len(obs.log) :
       obs.log[p].what = "publish" /\ ~obs.log[p].ok
  /\ Cardinality({ p \in 1..Len(obs.log) :
                     IsEmit(obs.log[p], "outgoing") }) = 1

\* C36: once a completion of the event has failed, at whatever iteration,
\* Handle is at its end: the trace of the event has no publish to a
\* destination, no reply and no outgoing event.
C36_FailedCompletionPublishesNothing ==
  obs # Nil /\ obs.failed =>
    /\ obs.pc = "done"
    /\ \A p \in 1..Len(obs.log) :
         /\ obs.log[p].what \notin {"publish", "reply"}
         /\ ~IsEmit(obs.log[p], "outgoing")

\* The second completion of an event with a reply subject failed, after a
\* round of tool calls: the trace ends with the tools' events.
C36_Witness ==
  /\ obs # Nil
  /\ obs.failed
  /\ obs.reply # ""
  /\ obs.rounds = 1
  /\ Len(cfg.publish) > 1
  /\ IsFinish(obs.log[Len(obs.log) - 1])
  /\ obs.log[Len(obs.log)] = Did("request", 0, "", TRUE)

\* ------------------------------------------------------- watching a topic
\* handler.go:625-673.  watch.sub is h.watchSub (0 for nil, else the handle
\* the platform returned), watch.topic is h.watchTopic, watch.active is the
\* set of subscriptions the platform still delivers for, watch.made counts
\* the Subscribe calls, watch.ret is the error of the last call.

MaxWatch == 3

WatchTopics == {"t1", "t2"}

NotWatching == [sub |-> 0, topic |-> "", active |-> {}, made |-> 0,
                ret |-> "none"]

WatchInit ==
  /\ watch = NotWatching
  /\ obs = Nil
  /\ cfg = Nil
  /\ HandlerFields
  /\ BusIdle
  /\ EventsIdle
  /\ BrokerIdle
  /\ PureIdle
  /\ HostIdle

restOfWatch == <<cfg, sessions, events, pc, msg, userSessionID,
                 serverSessionID, messages, i, resp, j, routeTo,
                 targetTopics, d, shape, completions, request, lastAnswer,
                 reqSessionIDs, createCalls, executed, published, warnings,
                 hostVars, busVars, ev, brokerVars, pureVars, obs>>

\* h.watchSub.Unsubscribe() (handler.go:660): on success the platform stops
\* delivering; on an error it may or may not have stopped.
Unsubscribed(w, ok, stopped) ==
  IF ok \/ stopped
  THEN { s \in w.active : s.id # w.sub }
  ELSE w.active

\* StopWatching (handler.go:654-668): nothing without a handle; otherwise
\* the handle and the topic are cleared whatever Unsubscribe returned.
StopWatching(w, ok, stopped) ==
  IF w.sub = 0
  THEN [w EXCEPT !.ret = "nil"]
  ELSE [w EXCEPT !.active = Unsubscribed(w, ok, stopped),
                 !.sub = 0,
                 !.topic = "",
                 !.ret = IF ok THEN "nil" ELSE "failed to unsubscribe"]

\* WatchTopic (handler.go:627-652): the previous watch is stopped, an error
\* of that only logged (629-631); then Subscribe, whose error is returned
\* with the fields left as StopWatching set them (640-643).
WatchTopic(w, topic, ok, stopped, subscribed) ==
  LET u == StopWatching(w, ok, stopped)
      h == w.made + 1
  IN  IF subscribed
      THEN [u EXCEPT !.active = @ \cup {[id |-> h, topic |-> topic]},
                     !.sub = h,
                     !.topic = topic,
                     !.made = h,
                     !.ret = "nil"]
      ELSE [u EXCEPT !.made = h, !.ret = "failed to subscribe"]

\* WatchingTopic (handler.go:670-673).
WatchingTopic == watch.topic

WatchTopicCall ==
  /\ watch.made < MaxWatch
  /\ \E topic \in WatchTopics, ok, stopped, subscribed \in BOOLEAN :
       watch' = WatchTopic(watch, topic, ok, stopped, subscribed)
  /\ UNCHANGED restOfWatch

StopWatchingCall ==
  /\ \E ok, stopped \in BOOLEAN : watch' = StopWatching(watch, ok, stopped)
  /\ UNCHANGED restOfWatch

WatchNext == WatchTopicCall \/ StopWatchingCall

WatchSpec == WatchInit /\ [][WatchNext]_vars

\* C34: after any sequence of WatchTopic and StopWatching calls at most one
\* watch subscription is active, and WatchingTopic() returns t exactly while
\* the subscription to t is the active one.
C34_OneActiveWatch ==
  watch # Nil =>
    /\ Cardinality(watch.active) <= 1
    /\ \A t \in WatchTopics :
         WatchingTopic = t <=>
           \E s \in watch.active : s.topic = t /\ s.id = watch.sub
    /\ WatchingTopic = "" <=> watch.active = {}

\* Two subscriptions are active after a WatchTopic that returned no error.
C34_Witness ==
  /\ watch # Nil
  /\ watch.ret = "nil"
  /\ WatchingTopic = "t2"
  /\ \E s \in watch.active : s.topic = "t1" /\ s.id # watch.sub
  /\ \E s \in watch.active : s.topic = "t2" /\ s.id = watch.sub

\* Whatever Unsubscribe returns, the handler's own fields are consistent:
\* no handle means no topic, a handle is the latest subscription made, and
\* a failed Subscribe or any StopWatching leaves the handler not watching.
C34_HandlerFields ==
  watch # Nil =>
    /\ watch.sub = 0 <=> WatchingTopic = ""
    /\ watch.sub # 0 => watch.sub = watch.made
    /\ watch.ret \in {"failed to subscribe", "failed to unsubscribe"} =>
         WatchingTopic = ""

\* ------------------------------------------------------- closing the broker

\* Close was the last change to the sessions: some session was closed and
\* no server has been connected since.
AfterMCPClose == mgr.ended # {} /\ mgr.sessions = {}

\* Close calls session.Close() on every open session and leaves the session
\* map empty.
C35_CloseStep ==
  (mgr # Nil /\ mgr'.sessions # mgr.sessions /\ mgr'.sessions = {}) =>
    /\ mgr.sessions \subseteq mgr'.ended
    /\ mgr'.failed \subseteq mgr'.ended
    /\ mgr'.tools = mgr.tools
    /\ mgr'.toolSrc = mgr.toolSrc

\* The claim as stated: after Close every call of a registered tool fails.
C35_Original ==
  (callRet # Nil /\ AfterMCPClose /\ callRet.name \in DOMAIN mgr.toolSrc) =>
    /\ callRet.err # ""
    /\ callRet.called \notin Servers

C35_AfterClose ==
  (callRet # Nil /\ AfterMCPClose /\ callRet.name \in DOMAIN mgr.toolSrc) =>
    IF mgr.toolExecutor
    THEN callRet.called = "executor"
    ELSE callRet.err = "no session for server" /\ callRet.called = "none"

\* C35: Close terminates every open tool-server session, a failure closing
\* one not preventing the others, and leaves the session map empty; after
\* Close a call of a registered tool goes to the test executor if one is
\* set and otherwise fails with an error; it never reaches a server.
C35_CloseEndsSessions == []C35_AfterClose /\ [][C35_CloseStep]_vars

\* Both servers were connected, Close ended both sessions although closing
\* one of them failed, and a call of a tool registered by a server then
\* failed without reaching it.
C35_Witness ==
  /\ callRet # Nil
  /\ mgr.sessions = {}
  /\ mgr.ended = Servers
  /\ mgr.failed = {"s1"}
  /\ ~mgr.toolExecutor
  /\ callRet.name \in DOMAIN mgr.toolSrc
  /\ mgr.toolSrc[callRet.name] = "s2"
  /\ callRet.err = "no session for server"
  /\ callRet.called = "none"

\* ------------------------------------------- tool results and requests

\* The ids of the tool-result messages of a conversation, in order.
RECURSIVE ResultIDs(_)
ResultIDs(msgs) ==
  IF msgs = << >> THEN << >>
  ELSE LET rest == ResultIDs(SubSeq(msgs, 1, Len(msgs) - 1))
           m == msgs[Len(msgs)]
       IN  IF m.role = "tool" THEN Append(rest, m.toolCallID) ELSE rest

\* A request just issued carries the whole conversation, with one result
\* message for every call executed so far; a finished iteration that goes
\* on is followed by a request.
C37_Included ==
  /\ pc = "completing" =>
       /\ request.messages = messages
       /\ ResultIDs(request.messages) = executed
  /\ pc = "complete" => ENABLED RequestCompletion

\* The claim as stated: after a tool call is executed the handler is on its
\* way to another request.
C37_OriginalStep ==
  (pc = "tool" /\ executed' # executed) => pc' \in {"tool", "complete"}

C37_Original == []C37_Included /\ [][C37_OriginalStep]_vars

\* The calls asked for by the tenth completion are executed and the loop is
\* left: their results are in the conversation and in no request.
C37_Step ==
  (pc = "tool" /\ executed' # executed) =>
    \/ pc' \in {"tool", "complete"}
    \/ /\ pc' = "route"
       /\ completions = maxToolIterations
       /\ completions' = completions

\* C37: every tool call Handle executes has its result message included in
\* a later completion request of the same event, except the calls asked for
\* by the event's tenth completion: these are executed after the last
\* request of the event and their results are in no request.
C37_ResultsReachARequest == []C37_Included /\ [][C37_Step]_vars

\* The second request of an event was issued with the results of the calls
\* of the first round in it.
C37_Witness ==
  /\ pc = "completing"
  /\ completions = 2
  /\ Len(executed) > 0
  /\ ResultIDs(request.messages) = executed
  /\ request.messages[Len(request.messages)].role = "tool"

\* The tenth completion asked for tools: they were executed and the loop
\* was left with no request after them.
C37_AtTheBound ==
  /\ pc = "route"
  /\ completions = maxToolIterations
  /\ Len(resp.toolCalls) > 0
  /\ messages[Len(messages)].role = "tool"
  /\ messages[Len(messages)].toolCallID = executed[Len(executed)]

\* ------------------------------------- one platform session per session key

\* The CreateSession calls that returned a session for the key.
CreatedFor(key) ==
  { k \in 1..Len(createCalls) :
      createCalls[k].key = key /\ createCalls[k].id # 0 }

\* C38 as stated: for two events with the same unseen session key handled
\* at the same time the platform session is created at most once, and both
\* events go on with the same server session identifier.
C38_OneSessionPerKey ==
  thr # Nil =>
    /\ \A key \in SessionKeys : Cardinality(CreatedFor(key)) <= 1
    /\ \A t \in Threads, u \in Threads :
         (/\ thr[t].pc = "resolved" /\ thr[u].pc = "resolved"
          /\ thr[t].key = thr[u].key
          /\ thr[t].id # 0 /\ thr[u].id # 0) => thr[t].id = thr[u].id

\* Two events with the key "u1", the first two of the run, were handled at
\* once: each found no mapping, each created a platform session, and they
\* go on to their completion requests with different identifiers.
C38_Witness ==
  /\ thr # Nil
  /\ delivered = 2
  /\ thr["source"].pc = "resolved"
  /\ thr["platform"].pc = "resolved"
  /\ thr["source"].key = "u1"
  /\ thr["platform"].key = "u1"
  /\ Cardinality(CreatedFor("u1")) = 2
  /\ thr["source"].id # 0
  /\ thr["platform"].id # 0
  /\ thr["source"].id # thr["platform"].id

\* --------------------------------------------------- Send against Close

\* C39 as stated: in no interleaving of Send with Close does Send attempt
\* to send on the closed channel; a Send that overlaps or follows Close
\* does nothing.
C39_NoSendOnClosedChannel ==
  bus # Nil =>
    \A t \in Threads :
      /\ snd[t].out # "panic"
      /\ Sent(t) /\ bus.chClosed => snd[t].out = "dropped" \/ snd[t].open

\* A Send read b.closed as false, Close then marked the bus and closed the
\* channel, and the Send's select ran on the closed channel: the thread
\* panicked.  Nothing was buffered or received.
C39_Witness ==
  /\ bus # Nil
  /\ bus.closed
  /\ bus.chClosed
  /\ \E t \in Threads : snd[t].pc = "panicked" /\ snd[t].out = "panic"
  /\ busLog.accepted = << >>

\* ------------------------------------- adapter names after Manager.Close

\* C40 as stated: a name that was a loaded adapter's when the agent
\* started is never dispatched as a platform publish, also while Run shuts
\* down and Close has emptied the registry.
C40_AdapterNameNeverOnPlatform ==
  thr # Nil =>
    \A t \in Threads :
      thr[t].pc = "agentPublish" => thr[t].dest \notin Adapters

\* Run is shutting down: Close has closed the sandboxes and emptied the
\* registry, an event whose answer goes to the adapter "dst" was still
\* being handled, IsPlugin did not find the name, and the answer is being
\* published on the platform topic "dst".
C40_Witness ==
  /\ thr # Nil
  /\ mainPc = "closed"
  /\ plugins = EmptyObj
  /\ "dst" \in closed
  /\ thr["platform"].pc = "agentPublish"
  /\ thr["platform"].dest = "dst"

\* While the registry holds the adapters every answer takes the branch of
\* its name: an adapter's name never reaches the platform publish, and a
\* platform topic never reaches Manager.Publish.
C40_WhileLoaded ==
  thr # Nil =>
    \A t \in Threads :
      /\ (thr[t].pc = "agentPublish" /\ thr[t].dest \in Adapters) =>
           mainPc = "closed"
      /\ thr[t].pc \in {"publish", "publishHeld", "inLua"} =>
           thr[t].dest \in Adapters

====
